---- MODULE Spec2Model ----
(***************************************************************************)
(* Sandboxed command execution and output redaction of the Solidity audit  *)
(* tools (tools/utils.ts): the authorization gate (validateCommand,        *)
(* validateArgs), the process execution controller (execCommand) and the   *)
(* secret redaction filter (redactSecrets), together with the operations   *)
(* run-build, run-tests and run-invariants (tools/test.ts,                 *)
(* tools/invariants.ts), their output parsers and the call_tool handler    *)
(* (index.ts).                                                             *)
(*                                                                         *)
(* Text is kept run-length encoded: a string is a sequence of runs         *)
(* <<c, n>>, the character c repeated n >= 1 times, adjacent runs having   *)
(* different characters.  A character is a UTF-16 code unit, written as a  *)
(* one-character TLA+ string.  Lengths are counted in code units, as       *)
(* String.prototype.length does.                                           *)
(***************************************************************************)
EXTENDS Integers, Sequences, FiniteSets, TLC

\* ------------------------------------------------------------------------
\* Characters and character classes
\* ------------------------------------------------------------------------

\* the classes of the regular expressions; NUL and BACKTICK stand for the
\* characters NUL and backtick, which a TLA+ string literal cannot spell,
\* HighSurrogate and LowSurrogate for the two UTF-16 code units of U+1F600;
\* WordChars is \w, SpaceChars is \s (the ASCII part), HexChars is [a-fA-F0-9]
CharClass ==
    LET lower == <<"a","b","c","d","e","f","g","h","i","j","k","l","m",
                   "n","o","p","q","r","s","t","u","v","w","x","y","z">>
        upper == <<"A","B","C","D","E","F","G","H","I","J","K","L","M",
                   "N","O","P","Q","R","S","T","U","V","W","X","Y","Z">>
        digits == <<"0","1","2","3","4","5","6","7","8","9">>
    IN  [ Lower      |-> lower,
          Upper      |-> upper,
          DigitChars |-> digits,
          Digits     |-> {digits[i] : i \in 1..10},
          NUL        |-> "<NUL>",
          BACKTICK   |-> "<BACKTICK>",
          WordChars  |-> {lower[i] : i \in 1..26} \cup {upper[i] : i \in 1..26}
                         \cup {digits[i] : i \in 1..10} \cup {"_"},
          SpaceChars |-> {" ", "\t", "\n", "\r", "\f"},
          HexChars   |-> {"a","b","c","d","e","f","A","B","C","D","E","F"}
                         \cup {digits[i] : i \in 1..10},
          Quotes     |-> {"\"", "'"},
          HighSurrogate |-> "<U+D83D>",
          LowSurrogate  |-> "<U+DE00>" ]

ToLower(c) ==
    IF \E i \in 1..26 : CharClass.Upper[i] = c
    THEN CharClass.Lower[CHOOSE i \in 1..26 : CharClass.Upper[i] = c]
    ELSE c

\* ------------------------------------------------------------------------
\* Strings
\* ------------------------------------------------------------------------

\* the number of characters in the runs lo..hi of s
RECURSIVE RunsLen(_, _, _)
RunsLen(s, lo, hi) ==
    IF lo > hi THEN 0
    ELSE IF lo = hi THEN s[lo][2]
    ELSE LET mid == (lo + hi) \div 2
         IN  RunsLen(s, lo, mid) + RunsLen(s, mid + 1, hi)

\* s.length
StrLen(s) == RunsLen(s, 1, Len(s))

\* the canonical form of a sequence of runs: no empty run, and adjacent
\* runs of one character merged into the first of them
Norm(s) ==
    LET t == SelectSeq(s, LAMBDA r : r[2] > 0)
        n == Len(t)
        groupEnd(i) == CHOOSE e \in i..n :
                          /\ \A j \in i..e : t[j][1] = t[i][1]
                          /\ (e = n \/ t[e + 1][1] # t[i][1])
        merged == [i \in 1..n |->
                     IF i > 1 /\ t[i - 1][1] = t[i][1] THEN <<t[i][1], 0>>
                     ELSE <<t[i][1], RunsLen(t, i, groupEnd(i))>>]
    IN  SelectSeq(merged, LAMBDA r : r[2] > 0)

\* a string literal, given as the tuple of its characters
Lit(t) == Norm([i \in 1..Len(t) |-> <<t[i], 1>>])

\* the character c repeated n times
Rep(c, n) == IF n <= 0 THEN <<>> ELSE <<<<c, n>>>>

\* a + b
Concat(a, b) == Norm(a \o b)

\* s repeated k times
Times(s, k) == Norm([i \in 1..(k * Len(s)) |-> s[((i - 1) % Len(s)) + 1]])

\* s.slice(0, k), for k >= 0
RECURSIVE TakeRuns(_, _, _, _)
TakeRuns(s, lo, hi, k) ==
    IF k <= 0 \/ lo > hi THEN <<>>
    ELSE IF lo = hi THEN <<<<s[lo][1], IF k < s[lo][2] THEN k ELSE s[lo][2]>>>>
    ELSE LET mid  == (lo + hi) \div 2
             left == RunsLen(s, lo, mid)
         IN  IF k <= left THEN TakeRuns(s, lo, mid, k)
             ELSE SubSeq(s, lo, mid) \o TakeRuns(s, mid + 1, hi, k - left)

Take(s, k) == TakeRuns(s, 1, Len(s), k)

\* s.slice(k), for k >= 0
RECURSIVE Drop(_, _)
Drop(s, k) ==
    IF k <= 0 \/ s = <<>> THEN s
    ELSE IF s[1][2] <= k THEN Drop(Tail(s), k - s[1][2])
         ELSE <<<<s[1][1], s[1][2] - k>>>> \o Tail(s)

\* s[i - 1] (positions count from 1 here); "" beyond the end
RECURSIVE CharAt(_, _)
CharAt(s, i) ==
    IF s = <<>> \/ i < 1 THEN ""
    ELSE IF i <= s[1][2] THEN s[1][1] ELSE CharAt(Tail(s), i - s[1][2])

\* the number of leading characters of s that belong to class
LeadingSpan(s, class) ==
    LET out == {j \in 1..Len(s) : s[j][1] \notin class}
        stop == IF out = {} THEN Len(s) + 1
                ELSE CHOOSE j \in out : \A i \in out : j <= i
    IN  RunsLen(s, 1, stop - 1)

\* s starts with the characters of the tuple t
StartsWith(s, t) == \A i \in 1..Len(t) : CharAt(s, i) = t[i]

\* s starts with the characters of the lower-case tuple t, ignoring case
StartsWithCI(s, t) == \A i \in 1..Len(t) : ToLower(CharAt(s, i)) = t[i]

\* the positions of s at which the characters of the tuple t occur; t has no
\* doubled first character, so an occurrence starts at the end of a run
Occurrences(s, t) ==
    {RunsLen(s, 1, j) : j \in {i \in 1..Len(s) :
        s[i][1] = t[1] /\ StartsWith(<<<<s[i][1], 1>>>> \o SubSeq(s, i + 1, Len(s)), t)}}

\* s.includes(t)
Includes(s, t) == Occurrences(s, t) # {}

\* ------------------------------------------------------------------------
\* Text as a tuple of characters, and JavaScript regular expressions
\* ------------------------------------------------------------------------

\* the characters of the runs lo..hi of the string s, one by one
RECURSIVE RunChars(_, _, _)
RunChars(s, lo, hi) ==
    IF lo > hi THEN <<>>
    ELSE IF lo = hi THEN [i \in 1..s[lo][2] |-> s[lo][1]]
    ELSE LET mid == (lo + hi) \div 2
         IN  RunChars(s, lo, mid) \o RunChars(s, mid + 1, hi)

\* the characters of the string s, one by one
Chars(s) == RunChars(s, 1, Len(s))

\* the elements of a pattern: a literal, a literal that ignores case, a
\* quantified character class (max Unbounded for * and +), a lazy one, and
\* a lookahead for one of several literals or for the end of the input
Unbounded == -1

Element(kind, chars, set, negated, lo, hi, isLazy, alternatives, atEnd) ==
    [k |-> kind, c |-> chars, s |-> set, neg |-> negated, min |-> lo, max |-> hi,
     lazy |-> isLazy, alts |-> alternatives, end |-> atEnd]

Str(t) == Element("lit", t, {}, FALSE, 0, 0, FALSE, {}, FALSE)

StrCI(t) == Element("litci", t, {}, FALSE, 0, 0, FALSE, {}, FALSE)

Rng(set, lo, hi) == Element("cls", <<>>, set, FALSE, lo, hi, FALSE, {}, FALSE)

NotRng(set, lo, hi) == Element("cls", <<>>, set, TRUE, lo, hi, FALSE, {}, FALSE)

\* [\s\S] with a greedy quantifier, and with a lazy one
AnyChar(lo, hi) == Element("cls", <<>>, {}, TRUE, lo, hi, FALSE, {}, FALSE)

AnyCharLazy(lo, hi) == Element("cls", <<>>, {}, TRUE, lo, hi, TRUE, {}, FALSE)

\* (?=a|b|...) and, with atEnd, (?=a|b|...|$)
Ahead(alternatives, atEnd) == Element("ahead", <<>>, {}, FALSE, 0, 0, FALSE, alternatives, atEnd)

Accepts(e, ch) == IF e.neg THEN ch \notin e.s ELSE ch \in e.s

\* the most characters from pos on that the class element e can take
Reach(e, t, pos) ==
    LET stop == {j \in pos..Len(t) : ~Accepts(e, t[j])}
        end  == IF stop = {} THEN Len(t) + 1
                ELSE CHOOSE j \in stop : \A i \in stop : j <= i
    IN  IF e.max # Unbounded /\ end - pos > e.max THEN e.max ELSE end - pos

\* the characters of c stand at pos in t
LitAt(t, pos, c) ==
    /\ pos + Len(c) - 1 <= Len(t)
    /\ \A i \in 1..Len(c) : t[pos + i - 1] = c[i]

LitAtCI(t, pos, c) ==
    /\ pos + Len(c) - 1 <= Len(t)
    /\ \A i \in 1..Len(c) : ToLower(t[pos + i - 1]) = ToLower(c[i])

\* no match
Fail == <<-1>>

\* what the first element of a pattern takes: cand lists the numbers of
\* characters it may take, the preferred one first, and rest[n] is the match
\* of the elements after it when it takes n characters, or Fail
Backtrack(cand, rest) ==
    LET results == [i \in 1..Len(cand) |-> rest[cand[i]]] \o <<>>
        good == {i \in 1..Len(cand) : results[i] # Fail}
    IN  IF good = {} THEN Fail
        ELSE LET i == CHOOSE j \in good : \A m \in good : j <= m
             IN  <<cand[i]>> \o results[i]

\* the numbers of characters the element e may take at pos, the preferred one
\* first: a greedy element prefers the most characters, a lazy one the fewest
Candidates(e, t, pos) ==
    LET Counts(hi) ==
            IF hi < e.min THEN <<>>
            ELSE [i \in 1..(hi - e.min + 1) |->
                     IF e.lazy THEN e.min + i - 1 ELSE hi - i + 1]
    IN  IF e.k = "lit" THEN IF LitAt(t, pos, e.c) THEN <<Len(e.c)>> ELSE <<>>
        ELSE IF e.k = "litci" THEN IF LitAtCI(t, pos, e.c) THEN <<Len(e.c)>> ELSE <<>>
        ELSE IF e.k = "ahead"
        THEN IF (\E a \in e.alts : LitAt(t, pos, a)) \/ (e.end /\ pos = Len(t) + 1)
             THEN <<0>> ELSE <<>>
        ELSE Counts(Reach(e, t, pos))

\* the backtracking matcher: the number of characters each of the elements
\* k.. of the pattern p takes when they match at pos, or Fail
RECURSIVE MatchFrom(_, _, _, _)
MatchFrom(p, k, t, pos) ==
    IF k > Len(p) THEN <<>>
    ELSE Backtrack(Candidates(p[k], t, pos),
                   [n \in 0..(Len(t) + 1 - pos) |-> MatchFrom(p, k + 1, t, pos + n)])

\* l[a] + ... + l[b]
RECURSIVE Sum(_, _, _)
Sum(l, a, b) == IF a > b THEN 0 ELSE l[a] + Sum(l, a + 1, b)

\* a regular expression is a tuple of alternative patterns, tried in order
\* at each position; a match records where it starts, the alternative and
\* the characters each element took
NoMatch == [at |-> 0, alt |-> 0, lens |-> <<>>]

\* the first match of re in t at or after the position from
Exec(re, t, from) ==
    LET Least(S) == IF S = {} THEN 0 ELSE CHOOSE j \in S : \A m \in S : j <= m
        Alt(i) == Least({a \in 1..Len(re) : MatchFrom(re[a], 1, t, i) # Fail})
        Taken(i, a) == [at |-> i, alt |-> a, lens |-> MatchFrom(re[a], 1, t, i)]
        Found(i) == IF i = 0 THEN NoMatch ELSE Taken(i, Alt(i))
    IN  Found(Least({i \in from..(Len(t) + 1) : Alt(i) # 0}))

\* the position after the match m
MatchEnd(m) == m.at + Sum(m.lens, 1, Len(m.lens))

\* the text the elements a..b of the pattern took in the match m
Group(t, m, a, b) ==
    SubSeq(t, m.at + Sum(m.lens, 1, a - 1), m.at + Sum(m.lens, 1, b) - 1)

\* output.matchAll(re): the matches from left to right, each search starting
\* where the match before it ended (no pattern here matches the empty text)
RECURSIVE MatchAll(_, _, _)
MatchAll(re, t, from) ==
    LET More(m) == IF m = NoMatch THEN <<>> ELSE <<m>> \o MatchAll(re, t, MatchEnd(m))
    IN  More(Exec(re, t, from))

\* output.match(re) of a pattern without the g flag
Match(re, t) == Exec(re, t, 1)

\* t.includes(c)
Contains(t, c) == \E i \in 1..(Len(t) + 1) : LitAt(t, i, c)

\* t.replace(c, ""), which removes the first occurrence of c
RemoveFirst(t, c) ==
    IF ~Contains(t, c) THEN t
    ELSE LET i == CHOOSE j \in 1..Len(t) : LitAt(t, j, c) /\ \A m \in 1..(j - 1) : ~LitAt(t, m, c)
         IN  SubSeq(t, 1, i - 1) \o SubSeq(t, i + Len(c), Len(t))

\* t.trim()
Trim(t) ==
    LET keep == {i \in 1..Len(t) : t[i] \notin CharClass.SpaceChars}
    IN  IF keep = {} THEN <<>>
        ELSE SubSeq(t, CHOOSE i \in keep : \A j \in keep : i <= j,
                       CHOOSE i \in keep : \A j \in keep : i >= j)

\* parseInt(t, 10) of a text of decimal digits
RECURSIVE parseInt(_)
parseInt(t) ==
    IF t = <<>> THEN 0
    ELSE 10 * parseInt(SubSeq(t, 1, Len(t) - 1))
         + (CHOOSE d \in 0..9 : CharClass.DigitChars[d + 1] = t[Len(t)])

\* the decimal digits of n >= 0, as a template literal writes a number
RECURSIVE Dec(_)
Dec(n) == IF n < 10 THEN <<CharClass.DigitChars[n + 1]>> ELSE Dec(n \div 10) \o <<CharClass.DigitChars[(n % 10) + 1]>>

\* a truncate that keeps maxLength characters before the suffix
truncate_KeepAll(text, maxLength) ==
    LET TruncatedSuffix ==
            <<"\n","[","T","r","u","n","c","a","t","e","d",".",".",".","]">>
    IN
    IF Len(text) <= maxLength THEN text
    ELSE SubSeq(text, 1, maxLength) \o TruncatedSuffix

\* truncate(text, maxLength)
truncate(text, maxLength) ==
    LET \* the suffix of truncate
        TruncatedSuffix ==
            <<"\n","[","T","r","u","n","c","a","t","e","d",".",".",".","]">>
    IN
    IF Len(text) <= maxLength THEN text
    ELSE SubSeq(text, 1, maxLength - 20) \o TruncatedSuffix

\* ------------------------------------------------------------------------
\* Secret redaction (redactSecrets, SECRET_PATTERNS)
\* ------------------------------------------------------------------------

\* the replacement text "[REDACTED]"
REDACTED == Lit(<<"[","R","E","D","A","C","T","E","D","]">>)

\* /0x[a-fA-F0-9]{64}/g : the number of hexadecimal digits after "0x"
KeyHexDigits == 64

\* length of the match of /0x[a-fA-F0-9]{64}/ at the start of t, 0 if none
MatchKey(t) ==
    IF StartsWith(t, <<"0", "x">>)
       /\ LeadingSpan(Drop(t, 2), CharClass.HexChars) >= KeyHexDigits
    THEN 2 + KeyHexDigits
    ELSE 0

\* length of the match of k[=:]["']?class+["']? at the start of t, where the
\* keyword alternative has matched k > 0 characters; 0 if none.  The
\* quantifiers are greedy and giving back a character never helps: the
\* optional quotes are not in class, and nothing follows the last quote.
MatchAssign(t, k, class) ==
    IF k = 0 \/ CharAt(t, k + 1) \notin {"=", ":"} THEN 0
    ELSE LET q1   == IF CharAt(t, k + 2) \in CharClass.Quotes THEN 1 ELSE 0
             span == LeadingSpan(Drop(t, k + 1 + q1), class)
             q2   == IF CharAt(t, k + 2 + q1 + span) \in CharClass.Quotes THEN 1 ELSE 0
         IN  IF span = 0 THEN 0 ELSE k + 1 + q1 + span + q2

\* (?:api[_-]?key|apikey|secret|password|token), case-insensitive
LabelLen(t) ==
    IF StartsWithCI(t, <<"a","p","i">>) /\ CharAt(t, 4) \in {"_", "-"}
       /\ StartsWithCI(Drop(t, 4), <<"k","e","y">>) THEN 7
    ELSE IF StartsWithCI(t, <<"a","p","i","k","e","y">>) THEN 6
    ELSE IF StartsWithCI(t, <<"s","e","c","r","e","t">>) THEN 6
    ELSE IF StartsWithCI(t, <<"p","a","s","s","w","o","r","d">>) THEN 8
    ELSE IF StartsWithCI(t, <<"t","o","k","e","n">>) THEN 5
    ELSE 0

\* (?:PRIVATE[_-]?KEY|MNEMONIC), case-insensitive
KeyLabelLen(t) ==
    IF StartsWithCI(t, <<"p","r","i","v","a","t","e">>) /\ CharAt(t, 8) \in {"_", "-"}
       /\ StartsWithCI(Drop(t, 8), <<"k","e","y">>) THEN 11
    ELSE IF StartsWithCI(t, <<"p","r","i","v","a","t","e","k","e","y">>) THEN 10
    ELSE IF StartsWithCI(t, <<"m","n","e","m","o","n","i","c">>) THEN 8
    ELSE 0

\* the three patterns, in the order of the array
SECRET_PATTERNS == <<"key", "label", "keylabel">>

\* length of the match of pattern p at the start of t, 0 if none
MatchLen(p, t) ==
    CASE p = "key"      -> MatchKey(t)
      [] p = "label"    -> MatchAssign(t, LabelLen(t), CharClass.WordChars \cup {"-"})
      [] p = "keylabel" -> MatchAssign(t, KeyLabelLen(t), CharClass.WordChars \cup CharClass.SpaceChars)

\* the lower-case characters a match of pattern p can start with
StartChars(p) ==
    CASE p = "key"      -> {"0"}
      [] p = "label"    -> {"a", "s", "p", "t"}
      [] p = "keylabel" -> {"p", "m"}

\* String.prototype.replace with a pattern that lacks the g flag: only the
\* first match is replaced
ReplaceFirst(p, t, by) ==
    LET n       == Len(t)
        from(j) == <<<<t[j][1], 1>>>> \o SubSeq(t, j + 1, n)
        found   == {j \in 1..n : ToLower(t[j][1]) \in StartChars(p)
                                 /\ MatchLen(p, from(j)) > 0}
    IN  IF found = {} THEN t
        ELSE LET j == CHOOSE k \in found : \A i \in found : k <= i
             IN  SubSeq(t, 1, j - 1) \o Rep(t[j][1], t[j][2] - 1) \o by
                 \o Drop(from(j), MatchLen(p, from(j)))

\* String.prototype.replace with a /g pattern: matches are taken leftmost
\* first and do not overlap; the scan resumes after each match.  No pattern
\* starts with a doubled character, so within a run of equal characters only
\* the last one can start a match.
RECURSIVE ReplaceAll(_, _, _)
ReplaceAll(p, t, by) ==
    LET n       == Len(t)
        from(j) == <<<<t[j][1], 1>>>> \o SubSeq(t, j + 1, n)
        found   == {j \in 1..n : ToLower(t[j][1]) \in StartChars(p)
                                 /\ MatchLen(p, from(j)) > 0}
    IN  IF found = {} THEN t
        ELSE LET j == CHOOSE k \in found : \A i \in found : k <= i
             IN  SubSeq(t, 1, j - 1) \o Rep(t[j][1], t[j][2] - 1) \o by
                 \o ReplaceAll(p, Drop(from(j), MatchLen(p, from(j))), by)

\* for (const pattern of SECRET_PATTERNS) result = result.replace(pattern, ..)
RECURSIVE RedactFrom(_, _)
RedactFrom(i, text) ==
    IF i > Len(SECRET_PATTERNS) THEN text
    ELSE RedactFrom(i + 1, Norm(ReplaceAll(SECRET_PATTERNS[i], text, REDACTED)))

\* a redaction that leaves out the first pattern
redactSecrets_NoKeyPattern(text) == RedactFrom(2, text)

redactSecrets(text) == RedactFrom(1, text)

\* text contains a match of /0x[a-fA-F0-9]{64}/
ContainsKey(text) ==
    \E j \in 1..Len(text) :
        /\ text[j][1] = "0"
        /\ MatchKey(<<<<"0", 1>>>> \o SubSeq(text, j + 1, Len(text))) > 0

\* ------------------------------------------------------------------------
\* Command authorization (ALLOWED_COMMANDS, validateCommand, validateArgs)
\* ------------------------------------------------------------------------

\* the executables of ALLOWED_COMMANDS
Command ==
    [ forge |-> Lit(<<"f","o","r","g","e">>),
      npx   |-> Lit(<<"n","p","x">>),
      npm   |-> Lit(<<"n","p","m">>),
      yarn  |-> Lit(<<"y","a","r","n">>),
      pnpm  |-> Lit(<<"p","n","p","m">>) ]

ALLOWED_COMMANDS == {Command.forge, Command.npx, Command.npm, Command.yarn, Command.pnpm}

\* the class without the backslash
ShellMeta_NoBackslash ==
    {";", "&", "|", CharClass.BACKTICK, "$", "(", ")", "{", "}", "[", "]", "<", ">"}

\* the characters of the class that validateArgs tests each argument for
ShellMeta == {";", "&", "|", CharClass.BACKTICK, "$", "(", ")", "{", "}", "[", "]", "<", ">", "\\"}

\* a validateCommand that lets every executable through
CommandAllowed_Any(c) == TRUE

\* validateCommand returns normally
CommandAllowed(c) == c \in ALLOWED_COMMANDS

\* the test of validateArgs on one argument: "ok", or the error it throws
ArgCheck(arg) ==
    IF \E j \in 1..Len(arg) : arg[j][1] \in ShellMeta THEN "metachar"
    ELSE IF \E j \in 1..Len(arg) : arg[j][1] \in {CharClass.NUL, "\n", "\r"} THEN "control"
    ELSE "ok"

\* the index of the first argument validateArgs throws on, 0 if none
FirstBadArg(a) ==
    LET bad == {i \in 1..Len(a) : ArgCheck(a[i]) # "ok"}
    IN  IF bad = {} THEN 0 ELSE CHOOSE i \in bad : \A j \in bad : i <= j

\* what the two validations at the head of execCommand throw, if anything
NoError == [kind |-> "none", arg |-> <<>>]

Gate(c, a) ==
    IF ~CommandAllowed(c) THEN [kind |-> "CommandNotAllowed", arg |-> c]
    ELSE IF FirstBadArg(a) = 0 THEN NoError
    ELSE IF ArgCheck(a[FirstBadArg(a)]) = "metachar"
         THEN [kind |-> "InvalidArgMetachar", arg |-> a[FirstBadArg(a)]]
         ELSE [kind |-> "InvalidArgControl", arg |-> <<>>]

\* ------------------------------------------------------------------------
\* Bounds and inputs
\* ------------------------------------------------------------------------

\* the longest argument vector a caller passes
MaxArgs == 2

\* the number of data events of one process
MaxData == 2

\* the number of pieces a text given to redactSecrets is made of
MaxPieces == 3

\* an argument that passes validateArgs
SafeArg == Lit(<<"-", "q">>)

\* an argument that holds the character c
ArgWith(c) == Lit(<<"a", c, "b">>)

\* a safe argument, one with a metacharacter and one with a line feed
CoreArgs == {SafeArg, ArgWith(";"), ArgWith("\n")}

\* one argument for each other character validateArgs rejects
OtherArgs ==
    {ArgWith(c) : c \in {"&", "|", CharClass.BACKTICK, "$", "(", ")", "{", "}", "[", "]",
                         "<", ">", "\\", CharClass.NUL, "\r"}}

\* the argument vectors of the callers: the vectors of core arguments, and
\* those in which one argument is one of the others
ArgVecs ==
    {a \in UNION {[1..n -> CoreArgs \cup OtherArgs] : n \in 0..MaxArgs} :
        Cardinality({i \in 1..Len(a) : a[i] \in OtherArgs}) <= 1}

\* executables a caller may ask for
CmdPool == ALLOWED_COMMANDS \cup {Lit(<<"s","h">>), Lit(<<"r","m">>)}

\* an optional value: Null, or Some(v)
Null == <<>>

Some(v) == <<v>>

\* the match filter of run-tests: absent, empty, safe, or with a metacharacter
MatchPool == {Null, Some(<<>>), Some(Lit(<<"V","a","u","l","t">>)), Some(Lit(<<"a", "|", "b">>))}

\* text a process writes in one data event
Dot      == Rep(".", 1)
Labelled == Times(Lit(<<"t","o","k","e","n","=","k",".">>), 8)
HexKey   == Concat(Lit(<<"0", "x">>), Rep("a", KeyHexDigits))

\* ------------------------------------------------------------------------
\* Output parsing
\* ------------------------------------------------------------------------

\* the texts of utils.ts: the words of its patterns and its messages
UtilsText ==
    [ Error |-> <<"E","r","r","o","r">>,
      Warning |-> <<"W","a","r","n","i","n","g">>,
      Arrow |-> <<"-","-",">">>,
      PASS |-> <<"P","A","S","S">>,
      FAIL |-> <<"F","A","I","L">>,
      FAILdot |-> <<"F","A","I","L",".">>,
      Traces |-> <<"T","r","a","c","e","s",":">>,
      passed |-> <<"p","a","s","s","e","d">>,
      failed |-> <<"f","a","i","l","e","d">>,
      FAILopen |-> <<"[","F","A","I","L">>,
      FAILmarker |-> <<"[","F","A","I","L","]">>,
      Invariant |-> <<"I","n","v","a","r","i","a","n","t">>,
      invariant |-> <<"i","n","v","a","r","i","a","n","t">>,
      Sequence |-> <<"S","e","q","u","e","n","c","e",":">>,
      seed |-> <<"s","e","e","d">>,
      ViolationDetected |-> <<"I","n","v","a","r","i","a","n","t"," ","v",
        "i","o","l","a","t","i","o","n"," ","d","e","t","e","c","t","e",
        "d">>,
      CommandNotAllowed |-> <<"C","o","m","m","a","n","d"," ","n","o","t",
        " ","a","l","l","o","w","e","d",":"," ">>,
      OnlyPermitted |-> <<"."," ","O","n","l","y"," ","f","o","r","g","e",
        ","," ","n","p","x",","," ","n","p","m",","," ","y","a","r","n",",",
        " ","p","n","p","m"," ","a","r","e"," ","p","e","r","m","i","t","t",
        "e","d",".">>,
      InvalidMetachar |-> <<"I","n","v","a","l","i","d"," ","a","r","g","u",
        "m","e","n","t",":"," ","c","o","n","t","a","i","n","s"," ","s","h",
        "e","l","l"," ","m","e","t","a","c","h","a","r","a","c","t","e","r",
        "s",":"," ">>,
      InvalidControl |-> <<"I","n","v","a","l","i","d"," ","a","r","g","u",
        "m","e","n","t",":"," ","c","o","n","t","a","i","n","s"," ","n","u",
        "l","l"," ","o","r"," ","n","e","w","l","i","n","e"," ","c","h","a",
        "r","a","c","t","e","r","s">>,
      PathTraversal |->
        <<"I","n","v","a","l","i","d"," ","p","a","t","h",":"," ","p","a","t",
          "h"," ","t","r","a","v","e","r","s","a","l"," ","n","o","t"," ","a",
          "l","l","o","w","e","d">>,
      PathNotAccessible |-> <<"P","a","t","h"," ","d","o","e","s"," ","n",
        "o","t"," ","e","x","i","s","t"," ","o","r"," ","i","s"," ","n","o",
        "t"," ","a","c","c","e","s","s","i","b","l","e",":"," ">> ]

\* the texts of tools/test.ts
TestText ==
    [ ParserError |-> <<"P","a","r","s","e","r","E","r","r","o","r">>,
      TypeError |-> <<"T","y","p","e","E","r","r","o","r">>,
      DeclarationError |-> <<"D","e","c","l","a","r","a","t","i","o","n",
        "E","r","r","o","r">>,
      passing |-> <<"p","a","s","s","i","n","g">>,
      failing |-> <<"f","a","i","l","i","n","g">>,
      ErrorColon |-> <<"E","r","r","o","r",":">>,
      at |-> <<"a","t">>,
      NA |-> <<"N","/","A">>,
      TIMEOUT |-> <<"T","I","M","E","O","U","T">>,
      TestsUnknownReason |-> <<"C","o","u","l","d"," ","n","o","t"," ","d",
        "e","t","e","c","t"," ","p","r","o","j","e","c","t"," ","t","y","p",
        "e","."," ","N","o"," ","f","o","u","n","d","r","y",".","t","o","m",
        "l"," ","o","r"," ","h","a","r","d","h","a","t",".","c","o","n","f",
        "i","g"," ","f","o","u","n","d",".">>,
      TestsUnknownSummary |-> <<"T","e","s","t","s"," ","f","a","i","l","e",
        "d",":"," ","U","n","k","n","o","w","n"," ","p","r","o","j","e","c",
        "t"," ","t","y","p","e">>,
      TestsTimeoutReason |-> <<"T","e","s","t"," ","e","x","e","c","u","t",
        "i","o","n"," ","t","i","m","e","d"," ","o","u","t"," ","a","f","t",
        "e","r"," ","5"," ","m","i","n","u","t","e","s">>,
      TestsTimeoutSummary |-> <<"T","e","s","t","s"," ","t","i","m","e","d",
        " ","o","u","t">>,
      TestFailed |-> <<"T","e","s","t"," ","f","a","i","l","e","d">>,
      All |-> <<"A","l","l"," ">>,
      testsPassed |-> <<" ","t","e","s","t","s"," ","p","a","s","s","e",
        "d">>,
      testsFailed |-> <<" ","t","e","s","t","s"," ","f","a","i","l","e",
        "d">>,
      testFailedPl |-> <<" ","t","e","s","t","(","s",")"," ","f","a","i",
        "l","e","d">>,
      BuildUnknownMessage |-> <<"C","o","u","l","d"," ","n","o","t"," ","d",
        "e","t","e","c","t"," ","p","r","o","j","e","c","t"," ","t","y","p",
        "e","."," ","S","p","e","c","i","f","y"," ","m","o","d","e","=","'",
        "f","o","u","n","d","r","y","'"," ","o","r"," ","m","o","d","e","=",
        "'","h","a","r","d","h","a","t","'",".">>,
      BuildUnknownSummary |-> <<"B","u","i","l","d"," ","f","a","i","l","e",
        "d",":"," ","U","n","k","n","o","w","n"," ","p","r","o","j","e","c",
        "t"," ","t","y","p","e">>,
      BuildSuccessful |-> <<"B","u","i","l","d"," ","s","u","c","c","e","s",
        "s","f","u","l">>,
      with |-> <<" ","w","i","t","h"," ">>,
      warnings |-> <<" ","w","a","r","n","i","n","g","(","s",")">>,
      BuildFailedWith |-> <<"B","u","i","l","d"," ","f","a","i","l","e","d",
        " ","w","i","t","h"," ">>,
      errors |-> <<" ","e","r","r","o","r","(","s",")">> ]

\* the texts of tools/invariants.ts
InvariantsText ==
    [ HardhatStep1 |-> <<"H","a","r","d","h","a","t"," ","d","o","e","s",
        " ","n","o","t"," ","h","a","v","e"," ","b","u","i","l","t","-","i",
        "n"," ","i","n","v","a","r","i","a","n","t"," ","t","e","s","t","i",
        "n","g",".">>,
      HardhatStep2 |-> <<"C","o","n","s","i","d","e","r"," ","u","s","i",
        "n","g"," ","F","o","u","n","d","r","y"," ","f","o","r"," ","i","n",
        "v","a","r","i","a","n","t"," ","t","e","s","t","i","n","g",","," ",
        "o","r"," ","e","x","t","e","r","n","a","l"," ","t","o","o","l","s",
        " ","l","i","k","e"," ","E","c","h","i","d","n","a",".">>,
      HardhatStep3 |-> <<"T","o"," ","u","s","e"," ","F","o","u","n","d",
        "r","y"," ","a","l","o","n","g","s","i","d","e"," ","H","a","r","d",
        "h","a","t",","," ","r","u","n",":"," ","f","o","r","g","e"," ","i",
        "n","i","t"," ","-","-","f","o","r","c","e">>,
      HardhatSummary |-> <<"I","n","v","a","r","i","a","n","t"," ","t","e",
        "s","t","i","n","g"," ","n","o","t"," ","a","v","a","i","l","a","b",
        "l","e"," ","f","o","r"," ","p","u","r","e"," ","H","a","r","d","h",
        "a","t"," ","p","r","o","j","e","c","t","s">>,
      NoFoundryDetails |-> <<"C","o","u","l","d"," ","n","o","t"," ","d",
        "e","t","e","c","t"," ","F","o","u","n","d","r","y"," ","p","r","o",
        "j","e","c","t","."," ","I","n","v","a","r","i","a","n","t"," ","t",
        "e","s","t","i","n","g"," ","r","e","q","u","i","r","e","s"," ","F",
        "o","u","n","d","r","y",".">>,
      NoFoundrySummary |-> <<"I","n","v","a","r","i","a","n","t"," ","t",
        "e","s","t","i","n","g"," ","r","e","q","u","i","r","e","s"," ","a",
        " ","F","o","u","n","d","r","y"," ","p","r","o","j","e","c","t">>,
      InvTimeoutDetails |-> <<"I","n","v","a","r","i","a","n","t"," ","t",
        "e","s","t"," ","e","x","e","c","u","t","i","o","n"," ","t","i","m",
        "e","d"," ","o","u","t"," ","a","f","t","e","r"," ","1","0"," ","m",
        "i","n","u","t","e","s">>,
      InvTimeoutStep1 |-> <<"T","h","e"," ","i","n","v","a","r","i","a","n",
        "t"," ","t","e","s","t","s"," ","t","o","o","k"," ","t","o","o"," ",
        "l","o","n","g"," ","t","o"," ","c","o","m","p","l","e","t","e",
        ".">>,
      InvTimeoutStep2 |-> <<"C","o","n","s","i","d","e","r"," ","r","e","d",
        "u","c","i","n","g"," ","t","h","e"," ","n","u","m","b","e","r"," ",
        "o","f"," ","r","u","n","s"," ","o","r"," ","d","e","p","t","h"," ",
        "i","n"," ","f","o","u","n","d","r","y",".","t","o","m","l",":">>,
      InvTimeoutStep3 |-> <<"[","i","n","v","a","r","i","a","n","t","]">>,
      InvTimeoutStep4 |-> <<"r","u","n","s"," ","="," ","2","5","6">>,
      InvTimeoutStep5 |-> <<"d","e","p","t","h"," ","="," ","1","5">>,
      InvTimeoutSummary |-> <<"I","n","v","a","r","i","a","n","t"," ","t",
        "e","s","t","s"," ","t","i","m","e","d"," ","o","u","t">>,
      NoTestsMatch |-> <<"N","o"," ","t","e","s","t","s"," ","m","a","t",
        "c","h">>,
      NoTestsToRun |-> <<"N","o"," ","t","e","s","t","s"," ","t","o"," ",
        "r","u","n">>,
      NoTestsStep1 |-> <<"N","o"," ","i","n","v","a","r","i","a","n","t",
        " ","t","e","s","t","s"," ","f","o","u","n","d"," ","i","n"," ","t",
        "h","e"," ","p","r","o","j","e","c","t",".">>,
      NoTestsStep2 |-> <<"I","n","v","a","r","i","a","n","t"," ","t","e",
        "s","t","s"," ","s","h","o","u","l","d"," ","b","e"," ","n","a","m",
        "e","d"," ","w","i","t","h"," ","'","i","n","v","a","r","i","a","n",
        "t","'"," ","p","r","e","f","i","x"," ","(","e",".","g",".",","," ",
        "'","i","n","v","a","r","i","a","n","t","_","t","o","t","a","l","S",
        "u","p","p","l","y","'",")",".">>,
      NoTestsStep3 |-> <<"C","o","n","s","i","d","e","r"," ","a","d","d",
        "i","n","g"," ","i","n","v","a","r","i","a","n","t"," ","t","e","s",
        "t","s"," ","t","o"," ","v","e","r","i","f","y"," ","c","r","i","t",
        "i","c","a","l"," ","p","r","o","t","o","c","o","l"," ","p","r","o",
        "p","e","r","t","i","e","s",".">>,
      NoTestsSummary |-> <<"N","o"," ","i","n","v","a","r","i","a","n","t",
        " ","t","e","s","t","s"," ","f","o","u","n","d">>,
      ToReproduce |-> <<"T","o"," ","r","e","p","r","o","d","u","c","e"," ",
        "t","h","e"," ","v","i","o","l","a","t","i","o","n",":">>,
      SetSeed |-> <<"1","."," ","S","e","t"," ","t","h","e"," ","f","u","z",
        "z"," ","s","e","e","d",":"," ","F","O","U","N","D","R","Y","_","F",
        "U","Z","Z","_","S","E","E","D","=">>,
      RunForge |-> <<"2","."," ","R","u","n",":"," ","f","o","r","g","e",
        " ","t","e","s","t"," ","-","-","m","a","t","c","h","-","t","e","s",
        "t"," ","<","i","n","v","a","r","i","a","n","t","_","n","a","m","e",
        ">"," ","-","v","v","v","v">>,
      Counterexample |-> <<"C","o","u","n","t","e","r","e","x","a","m","p",
        "l","e"," ","s","e","q","u","e","n","c","e",":">>,
      AllHeld |-> <<"A","l","l"," ","i","n","v","a","r","i","a","n","t","s",
        " ","h","e","l","d">>,
      violationsFound |-> <<" ","i","n","v","a","r","i","a","n","t"," ","v",
        "i","o","l","a","t","i","o","n","(","s",")"," ","f","o","u","n",
        "d">> ]

\* the texts of index.ts
IndexText ==
    [ ErrorExecuting |-> <<"E","r","r","o","r"," ","e","x","e","c","u","t",
        "i","n","g"," ">>,
      audit_build |-> <<"a","u","d","i","t","_","b","u","i","l","d">>,
      audit_test |-> <<"a","u","d","i","t","_","t","e","s","t">>,
      audit_invariants |-> <<"a","u","d","i","t","_","i","n","v","a","r",
        "i","a","n","t","s">>,
      ErrorsHead |-> <<"\n","E","r","r","o","r","s",":","\n">>,
      WarningsHead |-> <<"\n","W","a","r","n","i","n","g","s",":","\n">>,
      PassedHead |-> <<"P","a","s","s","e","d",":"," ">>,
      FailingHead |-> <<"\n","\n","F","a","i","l","i","n","g"," ","T","e",
        "s","t","s",":","\n">>,
      TracesHead |-> <<"\n","\n","T","r","a","c","e","s",":","\n">>,
      TraceSeparator |-> <<"\n","-","-","-","\n">>,
      ViolationsHead |-> <<"\n","V","i","o","l","a","t","i","o","n","s",":",
        "\n">>,
      ReproductionHead |-> <<"\n","\n","R","e","p","r","o","d","u","c","t",
        "i","o","n",":","\n">>,
      Dash |-> <<" ","-"," ">>,
      Bullet |-> <<" "," ","-"," ">>,
      audit_detect |-> <<"a","u","d","i","t","_","d","e","t","e","c","t">>,
      ProjectType |->
        <<"P","r","o","j","e","c","t"," ","T","y","p","e",":"," ">>,
      SolidityVersions |->
        <<"\n","S","o","l","i","d","i","t","y"," ","V","e","r","s","i","o",
          "n","s",":"," ">>,
      noneDetected |->
        <<"n","o","n","e"," ","d","e","t","e","c","t","e","d">>,
      BuildCommand |->
        <<"\n","B","u","i","l","d"," ","C","o","m","m","a","n","d",":"," ">>,
      TestCommand |->
        <<"\n","T","e","s","t"," ","C","o","m","m","a","n","d",":"," ">>,
      NA |-> <<"N","/","A">>,
      NotesHead |->
        <<"\n","N","o","t","e","s",":","\n">>,
      UnknownTool |->
        <<"U","n","k","n","o","w","n"," ","t","o","o","l",":"," ">> ]

NL == <<"\n">>

\* marker[:\s]+([^\n]+)\n\s*-->\s*([^:]+):(\d+):\d+ : the message is element
\* 3, the file element 8 and the line element 10
Located(marker) ==
    <<Str(marker), Rng({":"} \cup CharClass.SpaceChars, 1, Unbounded), NotRng({"\n"}, 1, Unbounded),
      Str(NL), Rng(CharClass.SpaceChars, 0, Unbounded), Str(UtilsText.Arrow), Rng(CharClass.SpaceChars, 0, Unbounded),
      NotRng({":"}, 1, Unbounded), Str(<<":">>), Rng(CharClass.Digits, 1, Unbounded), Str(<<":">>),
      Rng(CharClass.Digits, 1, Unbounded)>>

errorPattern == <<Located(UtilsText.Error)>>

warningPattern == <<Located(UtilsText.Warning)>>

LocatedWarnings(t, ms) ==
    [i \in 1..Len(ms) |->
        [file     |-> Group(t, ms[i], 8, 8),
         line     |-> parseInt(Group(t, ms[i], 10, 10)),
         message  |-> Trim(Group(t, ms[i], 3, 3))]]

parseFoundryBuildOutput(output) ==
    LET \* the records pushed for the matches ms of a Located pattern
        LocatedErrors(t, ms) ==
            [i \in 1..Len(ms) |->
                [file     |-> Group(t, ms[i], 8, 8),
                 line     |-> parseInt(Group(t, ms[i], 10, 10)),
                 message  |-> Trim(Group(t, ms[i], 3, 3)),
                 severity |-> "error"]]
    IN
    [errors   |-> LocatedErrors(output, MatchAll(errorPattern, output, 1)),
     warnings |-> LocatedWarnings(output, MatchAll(warningPattern, output, 1))]

\* a summary pattern that knows the comma only
summaryPattern_CommaOnly ==
    <<<<Rng(CharClass.Digits, 1, Unbounded), Rng(CharClass.SpaceChars, 1, Unbounded), Str(UtilsText.passed),
        Rng({","}, 1, 1), Rng(CharClass.SpaceChars, 0, Unbounded), Rng(CharClass.Digits, 1, Unbounded),
        Rng(CharClass.SpaceChars, 1, Unbounded), Str(UtilsText.failed)>>>>

\* (\d+)\s+passed[,;]\s*(\d+)\s+failed
summaryPattern ==
    <<<<Rng(CharClass.Digits, 1, Unbounded), Rng(CharClass.SpaceChars, 1, Unbounded), Str(UtilsText.passed),
        Rng({",", ";"}, 1, 1), Rng(CharClass.SpaceChars, 0, Unbounded), Rng(CharClass.Digits, 1, Unbounded),
        Rng(CharClass.SpaceChars, 1, Unbounded), Str(UtilsText.failed)>>>>

\* the record pushed for one match of testPattern
TestRecord(t, m) ==
    LET status == Group(t, m, 2, 3)
        passed == status = UtilsText.PASS
    IN  [name   |-> Group(t, m, 6, 6),
         file   |-> <<>>,
         reason |-> IF ~passed /\ Contains(status, <<":">>)
                    THEN Trim(RemoveFirst(status, UtilsText.FAILdot))
                    ELSE <<>>,
         passed |-> passed]

\* the traces pushed for the matches ms of a trace pattern, group 1 being
\* the element g
TraceTexts(t, ms, g, maxLength) ==
    LET found == [i \in 1..Len(ms) |-> Trim(Group(t, ms[i], g, g))]
        kept  == SelectSeq(found, LAMBDA x : x # <<>>)
    IN  [i \in 1..Len(kept) |-> truncate(kept[i], maxLength)]

\* the patterns of parseFoundryTestOutput and parseFoundryInvariantOutput
\*   test       \[(PASS|FAIL[^\]]*)\]\s+(\w+)\s*\( : group 1 is elements 2..3,
\*              the name is element 6
\*   trace      Traces:\s*([\s\S]*?)(?=\n\n|\[|$) : group 1 is element 3
\*   violation  \[FAIL[^\]]*\]\s+(invariant_?\w*) : the name is elements 5..7
\*   seed       Sequence:\s*\n([\s\S]*?)(?=\n\n|$) : group 1 is element 4
\*   fuzzSeed   seed[=:]\s*(\d+) with the i flag : group 1 is element 4
UtilsPattern ==
    [ test |->
        <<<<Str(<<"[">>), Str(UtilsText.PASS), NotRng({"]"}, 0, 0), Str(<<"]">>),
            Rng(CharClass.SpaceChars, 1, Unbounded), Rng(CharClass.WordChars, 1, Unbounded),
            Rng(CharClass.SpaceChars, 0, Unbounded), Str(<<"(">>)>>,
          <<Str(<<"[">>), Str(UtilsText.FAIL), NotRng({"]"}, 0, Unbounded),
            Str(<<"]">>), Rng(CharClass.SpaceChars, 1, Unbounded),
            Rng(CharClass.WordChars, 1, Unbounded), Rng(CharClass.SpaceChars, 0, Unbounded),
            Str(<<"(">>)>>>>,
      trace |->
        <<<<Str(UtilsText.Traces), Rng(CharClass.SpaceChars, 0, Unbounded),
            AnyCharLazy(0, Unbounded), Ahead({<<"\n", "\n">>, <<"[">>}, TRUE)>>>>,
      violation |->
        <<<<Str(UtilsText.FAILopen), NotRng({"]"}, 0, Unbounded), Str(<<"]">>),
            Rng(CharClass.SpaceChars, 1, Unbounded), Str(UtilsText.invariant),
            Rng({"_"}, 0, 1), Rng(CharClass.WordChars, 0, Unbounded)>>>>,
      seed |->
        <<<<Str(UtilsText.Sequence), Rng(CharClass.SpaceChars, 0, Unbounded), Str(NL),
            AnyCharLazy(0, Unbounded), Ahead({<<"\n", "\n">>}, TRUE)>>>>,
      fuzzSeed |->
        <<<<StrCI(UtilsText.seed), Rng({"=", ":"}, 1, 1),
            Rng(CharClass.SpaceChars, 0, Unbounded), Rng(CharClass.Digits, 1, Unbounded)>>>> ]

parseFoundryTestOutput(output) ==
    LET Records(ms) == [i \in 1..Len(ms) |-> TestRecord(output, ms[i])]
        Counted(tests, summaryMatch, traces) ==
            LET passed == IF summaryMatch # NoMatch
                          THEN parseInt(Group(output, summaryMatch, 1, 1))
                          ELSE Len(SelectSeq(tests, LAMBDA x : x.passed))
                failed == IF summaryMatch # NoMatch
                          THEN parseInt(Group(output, summaryMatch, 6, 6))
                          ELSE Len(SelectSeq(tests, LAMBDA x : ~x.passed))
            IN  [total  |-> passed + failed,
                 passed |-> passed,
                 failed |-> failed,
                 tests  |-> tests,
                 traces |-> traces]
    IN  Counted(Records(MatchAll(UtilsPattern.test, output, 1)),
                Match(summaryPattern, output),
                TraceTexts(output, MatchAll(UtilsPattern.trace, output, 1), 3, 2000))

parseFoundryInvariantOutput(output) ==
    LET Violations(ms) ==
            [i \in 1..Len(ms) |->
                [invariant |-> Group(output, ms[i], 5, 7),
                 file      |-> <<>>,
                 details   |-> UtilsText.ViolationDetected]]
        Seeds(fuzzSeedMatch) ==
            IF fuzzSeedMatch # NoMatch
            THEN <<Group(output, fuzzSeedMatch, 4, 4)>>
            ELSE <<>>
        Steps(sq) ==
            [i \in 1..Len(sq) |-> truncate(Trim(Group(output, sq[i], 4, 4)), 1000)]
    IN  [ok         |-> /\ ~Contains(output, UtilsText.FAILmarker)
                        /\ ~Contains(output, UtilsText.Invariant),
         violations |-> Violations(MatchAll(UtilsPattern.violation, output, 1)),
         seeds      |-> Seeds(Match(UtilsPattern.fuzzSeed, output)),
         steps      |-> Steps(MatchAll(UtilsPattern.seed, output, 1))]

\* ------------------------------------------------------------------------
\* The operations after execCommand has returned
\* ------------------------------------------------------------------------

\* result.stdout + "\n" + result.stderr
Output(result) == Chars(result.stdout) \o NL \o Chars(result.stderr)

\* runTests when the project is neither a Foundry nor a Hardhat project
TestsUnknownProject ==
    [ok            |-> FALSE,
     totalTests    |-> 0,
     passedTests   |-> 0,
     failingTests  |-> <<[name |-> TestText.NA, file |-> <<>>, reason |-> TestText.TestsUnknownReason]>>,
     failingTraces |-> <<>>,
     summary       |-> TestText.TestsUnknownSummary]

\* the patterns of runTests and buildProject
\*   fail          \d+\)\s+([^\n]+)\n\s*([^\n]+) : the name is element 4, the
\*                 reason element 7
\*   mochaSummary  (\d+)\s+passing.*?(\d+)\s+failing with the s flag : the
\*                 groups are elements 1 and 5
\*   pass          (\d+)\s+passing
\*   traceHead     Error:([^\n]+...) : the first line of a Mocha trace
\*   traceLine     \n\s+at[^\n]+ : one more line of a Mocha trace
\*   hardhatError  Error[:\s]+([^\n]+) : the message is element 3
\*   solcError     (ParserError|TypeError|DeclarationError)[:\s]+([^\n]+)\n
\*                 \s*-->\s*([^:]+):(\d+):\d+
TestPattern ==
    [ fail |->
        <<<<Rng(CharClass.Digits, 1, Unbounded), Str(<<")">>), Rng(CharClass.SpaceChars, 1, Unbounded),
            NotRng({"\n"}, 1, Unbounded), Str(NL), Rng(CharClass.SpaceChars, 0, Unbounded),
            NotRng({"\n"}, 1, Unbounded)>>>>,
      mochaSummary |->
        <<<<Rng(CharClass.Digits, 1, Unbounded), Rng(CharClass.SpaceChars, 1, Unbounded),
            Str(TestText.passing), AnyCharLazy(0, Unbounded),
            Rng(CharClass.Digits, 1, Unbounded), Rng(CharClass.SpaceChars, 1, Unbounded),
            Str(TestText.failing)>>>>,
      pass |->
        <<<<Rng(CharClass.Digits, 1, Unbounded), Rng(CharClass.SpaceChars, 1, Unbounded),
            Str(TestText.passing)>>>>,
      traceHead |->
        <<<<Str(TestText.ErrorColon), NotRng({"\n"}, 1, Unbounded)>>>>,
      traceLine |->
        <<Str(NL), Rng(CharClass.SpaceChars, 1, Unbounded), Str(TestText.at),
          NotRng({"\n"}, 1, Unbounded)>>,
      hardhatError |->
        <<<<Str(UtilsText.Error), Rng({":"} \cup CharClass.SpaceChars, 1, Unbounded),
            NotRng({"\n"}, 1, Unbounded)>>>>,
      solcError |->
        <<Located(TestText.ParserError), Located(TestText.TypeError),
          Located(TestText.DeclarationError)>> ]

\* (?:\n\s+at[^\n]+)* from pos on: the position after the last line taken
RECURSIVE TraceLinesEnd(_, _)
TraceLinesEnd(t, pos) ==
    LET After(r) ==
            IF r = Fail THEN pos ELSE TraceLinesEnd(t, pos + Sum(r, 1, Len(r)))
    IN  After(MatchFrom(TestPattern.traceLine, 1, t, pos))

\* the matches of Error:([^\n]+(?:\n\s+at[^\n]+)*), each as the text match[0]
RECURSIVE MochaTraces(_, _)
MochaTraces(t, from) ==
    LET Trace(at, end) == <<SubSeq(t, at, end - 1)>> \o MochaTraces(t, end)
        FromHead(m) ==
            IF m = NoMatch THEN <<>>
            ELSE Trace(m.at, TraceLinesEnd(t, MatchEnd(m)))
    IN  FromHead(Exec(TestPattern.traceHead, t, from))

\* runTests from the return of execCommand on
TestsReturn(testCmd, result) ==
    LET TimedOut(output) ==
            [ok            |-> FALSE,
             totalTests    |-> 0,
             passedTests   |-> 0,
             failingTests  |-> <<[name |-> TestText.TIMEOUT, file |-> <<>>,
                                  reason |-> TestText.TestsTimeoutReason]>>,
             failingTraces |-> <<truncate(output, 2000)>>,
             summary       |-> TestText.TestsTimeoutSummary]
        Forge(parsed) ==
            LET failing == SelectSeq(parsed.tests, LAMBDA x : ~x.passed)
            IN  [ok            |-> parsed.failed = 0,
                 totalTests    |-> parsed.total,
                 passedTests   |-> parsed.passed,
                 failingTests  |-> [i \in 1..Len(failing) |->
                                       [name   |-> failing[i].name,
                                        file   |-> failing[i].file,
                                        reason |-> IF failing[i].reason # <<>>
                                                   THEN failing[i].reason
                                                   ELSE TestText.TestFailed]],
                 failingTraces |-> parsed.traces,
                 summary       |->
                     IF parsed.failed = 0
                     THEN TestText.All \o Dec(parsed.total) \o TestText.testsPassed
                     ELSE Dec(parsed.failed) \o <<"/">> \o Dec(parsed.total)
                          \o TestText.testsFailed]
        Failing(output, ms) ==
            [i \in 1..Len(ms) |->
                [name   |-> Trim(Group(output, ms[i], 4, 4)),
                 file   |-> <<>>,
                 reason |-> Trim(Group(output, ms[i], 7, 7))]]
        Hardhat(output, failingTests, summaryMatch, passMatch, traces) ==
            LET passedTests == IF summaryMatch # NoMatch
                               THEN parseInt(Group(output, summaryMatch, 1, 1))
                               ELSE IF passMatch # NoMatch
                               THEN parseInt(Group(output, passMatch, 1, 1))
                               ELSE 0
                totalTests == IF summaryMatch # NoMatch
                              THEN passedTests
                                   + parseInt(Group(output, summaryMatch, 5, 5))
                              ELSE IF passMatch # NoMatch
                              THEN passedTests + Len(failingTests)
                              ELSE 0
                ok == Len(failingTests) = 0 /\ result.exitCode = 0
            IN  [ok            |-> ok,
                 totalTests    |-> totalTests,
                 passedTests   |-> passedTests,
                 failingTests  |-> failingTests,
                 failingTraces |-> [i \in 1..Len(traces) |->
                                       truncate(traces[i], 1000)],
                 summary       |->
                     IF ok
                     THEN TestText.All \o Dec(totalTests) \o TestText.testsPassed
                     ELSE Dec(Len(failingTests)) \o TestText.testFailedPl]
        After(output) ==
            IF result.timedOut THEN TimedOut(output)
            ELSE IF testCmd = Command.forge THEN Forge(parseFoundryTestOutput(output))
            ELSE Hardhat(output,
                         Failing(output, MatchAll(TestPattern.fail, output, 1)),
                         Match(TestPattern.mochaSummary, output),
                         Match(TestPattern.pass, output),
                         MochaTraces(output, 1))
    IN  After(Output(result))

\* buildProject when no project type is given or detected
BuildUnknownProject ==
    [ok             |-> FALSE,
     compilerErrors |-> <<[file |-> <<>>, line |-> 0, message |-> TestText.BuildUnknownMessage,
                           severity |-> "error"]>>,
     warnings       |-> <<>>,
     summary        |-> TestText.BuildUnknownSummary]

\* the summary of buildProject
BuildSummary(ok, errors, warnings) ==
    IF ok
    THEN TestText.BuildSuccessful
         \o (IF Len(warnings) > 0 THEN TestText.with \o Dec(Len(warnings)) \o TestText.warnings ELSE <<>>)
    ELSE TestText.BuildFailedWith \o Dec(Len(errors)) \o TestText.errors

\* buildProject from the return of execCommand on
BuildReturn(buildCmd, result) ==
    LET Built(errors, warnings) ==
            LET ok == result.exitCode = 0 /\ Len(errors) = 0
            IN  [ok             |-> ok,
                 compilerErrors |-> errors,
                 warnings       |-> warnings,
                 summary        |-> BuildSummary(ok, errors, warnings)]
        Forge(parsed) == Built(parsed.errors, parsed.warnings)
        HardhatErrors(output, es) ==
            [i \in 1..Len(es) |->
                [file |-> <<>>, line |-> 0,
                 message |-> Trim(Group(output, es[i], 3, 3)),
                 severity |-> "error"]]
        SolcErrors(output, ss) ==
            [i \in 1..Len(ss) |->
                [file |-> Group(output, ss[i], 8, 8),
                 line |-> parseInt(Group(output, ss[i], 10, 10)),
                 message |-> Group(output, ss[i], 1, 1) \o <<":", " ">>
                             \o Trim(Group(output, ss[i], 3, 3)),
                 severity |-> "error"]]
        After(output) ==
            IF buildCmd = Command.forge THEN Forge(parseFoundryBuildOutput(output))
            ELSE Built(HardhatErrors(output, MatchAll(TestPattern.hardhatError, output, 1))
                       \o SolcErrors(output, MatchAll(TestPattern.solcError, output, 1)),
                       LocatedWarnings(output, MatchAll(warningPattern, output, 1)))
    IN  After(Output(result))

\* runInvariants on a project that is a Hardhat and not a Foundry project
InvariantsHardhatOnly ==
    [ok                |-> TRUE,
     violations        |-> <<>>,
     seedHints         |-> <<>>,
     reproductionSteps |-> <<InvariantsText.HardhatStep1, InvariantsText.HardhatStep2, InvariantsText.HardhatStep3>>,
     summary           |-> InvariantsText.HardhatSummary]

\* runInvariants on a project that is not a Foundry project
InvariantsNoFoundry ==
    [ok                |-> FALSE,
     violations        |-> <<[invariant |-> TestText.NA, file |-> <<>>, details |-> InvariantsText.NoFoundryDetails]>>,
     seedHints         |-> <<>>,
     reproductionSteps |-> <<>>,
     summary           |-> InvariantsText.NoFoundrySummary]

\* runInvariants from the return of execCommand on
InvariantsReturn(result) ==
    LET \* new RegExp(`${invariant}[^\\n]*\\n([\\s\\S]{0,500})`, "i") : the
        \* context is element 4
        contextPattern(invariant) ==
            <<<<StrCI(invariant), NotRng({"\n"}, 0, Unbounded), Str(NL),
                AnyChar(0, 500)>>>>
        TimedOut ==
            [ok                |-> FALSE,
             violations        |-> <<[invariant |-> TestText.TIMEOUT, file |-> <<>>,
                                      details |-> InvariantsText.InvTimeoutDetails]>>,
             seedHints         |-> <<>>,
             reproductionSteps |-> <<InvariantsText.InvTimeoutStep1,
                                     InvariantsText.InvTimeoutStep2,
                                     InvariantsText.InvTimeoutStep3,
                                     InvariantsText.InvTimeoutStep4,
                                     InvariantsText.InvTimeoutStep5>>,
             summary           |-> InvariantsText.InvTimeoutSummary]
        NoTests ==
            [ok                |-> TRUE,
             violations        |-> <<>>,
             seedHints         |-> <<>>,
             reproductionSteps |-> <<InvariantsText.NoTestsStep1,
                                     InvariantsText.NoTestsStep2,
                                     InvariantsText.NoTestsStep3>>,
             summary           |-> InvariantsText.NoTestsSummary]
        Steps(parsed) ==
            IF Len(parsed.violations) > 0
            THEN <<InvariantsText.ToReproduce>>
                 \o (IF Len(parsed.seeds) > 0
                     THEN <<InvariantsText.SetSeed \o parsed.seeds[1],
                            InvariantsText.RunForge>>
                     ELSE <<>>)
                 \o (IF Len(parsed.steps) > 0
                     THEN <<<<>>, InvariantsText.Counterexample>> \o parsed.steps
                     ELSE <<>>)
            ELSE <<>>
        Details(output, v, contextMatch) ==
            IF contextMatch # NoMatch
            THEN truncate(Trim(Group(output, contextMatch, 4, 4)), 500)
            ELSE v.details
        Violation(output, v) ==
            [invariant |-> v.invariant,
             file      |-> v.file,
             details   |-> Details(output, v,
                                   Match(contextPattern(v.invariant), output))]
        Parsed(output, parsed) ==
            [ok                |-> parsed.ok,
             violations        |-> [i \in 1..Len(parsed.violations) |->
                                       Violation(output, parsed.violations[i])],
             seedHints         |-> parsed.seeds,
             reproductionSteps |-> Steps(parsed),
             summary           |-> IF parsed.ok
                                   THEN InvariantsText.AllHeld
                                   ELSE Dec(Len(parsed.violations))
                                        \o InvariantsText.violationsFound]
        After(output) ==
            IF result.timedOut THEN TimedOut
            ELSE IF \/ Contains(output, InvariantsText.NoTestsMatch)
                    \/ Contains(output, InvariantsText.NoTestsToRun)
            THEN NoTests
            ELSE Parsed(output, parseFoundryInvariantOutput(output))
    IN  After(Output(result))

\* ------------------------------------------------------------------------
\* The call_tool handler
\* ------------------------------------------------------------------------

\* lines.join(sep)
RECURSIVE JoinWith(_, _)
JoinWith(lines, sep) ==
    IF lines = <<>> THEN <<>>
    ELSE IF Len(lines) = 1 THEN lines[1]
    ELSE lines[1] \o sep \o JoinWith(Tail(lines), sep)

\* process.cwd()
ProcessCwd == <<"/","w">>

\* the directories that exist, each the sequence of its names from the root:
\* /, /p, /p/a..b, /q and /w
Directories ==
    {<<>>, <<(<<"p">>)>>, <<(<<"p">>), (<<"a",".",".","b">>)>>, <<(<<"q">>)>>,
     <<(<<"w">>)>>}

\* path.isAbsolute(p) of POSIX
isAbsolute(p) == p # <<>> /\ p[1] = "/"

\* the names between the slashes of the path p
Segments(p) ==
    LET starts == SelectSeq([i \in 1..Len(p) |-> i],
                            LAMBDA i : p[i] # "/" /\ (i = 1 \/ p[i - 1] = "/"))
        End(s) == CHOOSE e \in s..Len(p) :
                      /\ \A j \in s..e : p[j] # "/"
                      /\ e = Len(p) \/ p[e + 1] = "/"
    IN  [k \in 1..Len(starts) |-> SubSeq(p, starts[k], End(starts[k]))]

\* the directory that the names segs lead to from the directory at: "." stays,
\* ".." goes to the parent, and the parent of the root is the root
RECURSIVE Normalized(_, _)
Normalized(at, segs) ==
    IF segs = <<>> THEN at
    ELSE Normalized(IF Head(segs) = <<".">> THEN at
                    ELSE IF Head(segs) = <<".", ".">>
                    THEN SubSeq(at, 1, Len(at) - 1)
                    ELSE Append(at, Head(segs)),
                    Tail(segs))

\* path.resolve(from, to) of POSIX
resolve(from, to) ==
    <<"/">> \o JoinWith(Normalized(<<>>, IF isAbsolute(to) THEN Segments(to)
                                         ELSE Segments(from) \o Segments(to)),
                        <<"/">>)

\* access(p) settles: the system follows the names of p one by one, and each
\* must lead to a directory that exists
RECURSIVE Reachable(_, _)
Reachable(at, segs) ==
    \/ segs = <<>>
    \/ LET next == Normalized(at, <<Head(segs)>>)
       IN  next \in Directories /\ Reachable(next, Tail(segs))

access(p) == Reachable(<<>>, Segments(p))

\* validateProjectPath(projectPath): the error it throws, or the path it
\* returns
validateProjectPath(projectPath) ==
    LET absolutePath == IF isAbsolute(projectPath) THEN projectPath
                        ELSE resolve(ProcessCwd, projectPath)
        normalizedPath == resolve(ProcessCwd, absolutePath)
    IN  IF Contains(normalizedPath, <<".", ".">>)
        THEN [thrown |-> [kind |-> "PathTraversal", arg |-> <<>>], path |-> Null]
        ELSE IF ~access(absolutePath)
        THEN [thrown |-> [kind |-> "PathError", arg |-> Lit(projectPath)],
              path |-> Null]
        ELSE [thrown |-> NoError, path |-> Some(absolutePath)]

\* fileExists(join(projectPath, "foundry.toml")), files being the
\* configuration files in the directory
isFoundryProject(files) == "foundry.toml" \in files

isHardhatProject(files) ==
    "hardhat.config.ts" \in files \/ "hardhat.config.js" \in files

\* no operation has been called
NoProject == [projectPath |-> <<>>, mode |-> "auto", files |-> {}, validated |-> Null]

\* the project of a call
Project(projectPath, mode, files) ==
    [projectPath |-> projectPath, mode |-> mode, files |-> files,
     validated |-> validateProjectPath(projectPath).path]

\* error.message of the error a validation threw
ErrorMessage(error) ==
    IF error.kind = "CommandNotAllowed"
    THEN UtilsText.CommandNotAllowed \o Chars(error.arg) \o UtilsText.OnlyPermitted
    ELSE IF error.kind = "InvalidArgMetachar"
    THEN UtilsText.InvalidMetachar \o Chars(error.arg)
    ELSE IF error.kind = "InvalidArgControl"
    THEN UtilsText.InvalidControl
    ELSE IF error.kind = "PathTraversal"
    THEN UtilsText.PathTraversal
    ELSE UtilsText.PathNotAccessible \o Chars(error.arg)

\* request.params.name of the operations
ToolName(name) ==
    IF name = "audit_build" THEN IndexText.audit_build
    ELSE IF name = "audit_test" THEN IndexText.audit_test
    ELSE IF name = "audit_detect" THEN IndexText.audit_detect
    ELSE IndexText.audit_invariants

\* textSummary of the handler
textSummary(name, res) ==
    LET \* the line `  ${file}:${line} - ${message}` of an error or a warning
        IssueLine(e) == <<" ", " ">> \o e.file \o <<":">> \o Dec(e.line) \o IndexText.Dash \o e.message
        \* `${cmd} ${args.join(" ")}` of a command, "N/A" of null
        CommandLine(c) ==
            IF c = Null THEN IndexText.NA
            ELSE Chars(c[1].cmd) \o <<" ">>
                 \o JoinWith([i \in 1..Len(c[1].args) |-> Chars(c[1].args[i])], <<" ">>)
    IN
    IF name = "audit_detect"
    THEN IndexText.ProjectType \o res.projectType
         \o IndexText.SolidityVersions
         \o (IF res.solidityVersionHints = <<>> THEN IndexText.noneDetected
             ELSE JoinWith(res.solidityVersionHints, <<",", " ">>))
         \o IndexText.BuildCommand \o CommandLine(res.buildCommand)
         \o IndexText.TestCommand \o CommandLine(res.testCommand)
         \o IndexText.NotesHead
         \o JoinWith([i \in 1..Len(res.notes) |-> IndexText.Bullet \o res.notes[i]], NL)
    ELSE IF name = "audit_build"
    THEN res.summary \o NL
         \o (IF Len(res.compilerErrors) > 0
             THEN IndexText.ErrorsHead
                  \o JoinWith([i \in 1..Len(res.compilerErrors) |-> IssueLine(res.compilerErrors[i])], NL)
             ELSE <<>>)
         \o (IF Len(res.warnings) > 0
             THEN IndexText.WarningsHead
                  \o JoinWith([i \in 1..Len(res.warnings) |-> IssueLine(res.warnings[i])], NL)
             ELSE <<>>)
    ELSE IF name = "audit_test"
    THEN res.summary \o NL \o IndexText.PassedHead \o Dec(res.passedTests) \o <<"/">> \o Dec(res.totalTests)
         \o (IF Len(res.failingTests) > 0
             THEN IndexText.FailingHead
                  \o JoinWith([i \in 1..Len(res.failingTests) |->
                                  IndexText.Bullet \o res.failingTests[i].name \o <<":", " ">>
                                  \o res.failingTests[i].reason], NL)
             ELSE <<>>)
         \o (IF Len(res.failingTraces) > 0
             THEN IndexText.TracesHead
                  \o JoinWith(SubSeq(res.failingTraces, 1,
                                     IF Len(res.failingTraces) < 3 THEN Len(res.failingTraces) ELSE 3),
                              IndexText.TraceSeparator)
             ELSE <<>>)
    ELSE res.summary \o NL
         \o (IF Len(res.violations) > 0
             THEN IndexText.ViolationsHead
                  \o JoinWith([i \in 1..Len(res.violations) |->
                                  IndexText.Bullet \o res.violations[i].invariant \o <<":", " ">>
                                  \o res.violations[i].details], NL)
             ELSE <<>>)
         \o (IF Len(res.reproductionSteps) > 0
             THEN IndexText.ReproductionHead \o JoinWith(res.reproductionSteps, NL)
             ELSE <<>>)

\* a response with structured content in place of an error response
ErrorResponse_AsResult(name, message) ==
    [isError           |-> FALSE,
     text              |-> IndexText.ErrorExecuting \o ToolName(name) \o <<":", " ">> \o message,
     structuredContent |-> Some(message)]

\* the response the catch block of the handler returns
ErrorResponse(name, message) ==
    [isError           |-> TRUE,
     text              |-> IndexText.ErrorExecuting \o ToolName(name) \o <<":", " ">> \o message,
     structuredContent |-> Null]

\* the response for the result of an operation
Response(name, res) ==
    [isError           |-> FALSE,
     text              |-> textSummary(name, res),
     structuredContent |-> Some(res)]

\* the operation named name from the return of execCommand on
ToolReturn(name, c, res) ==
    IF name = "audit_build" THEN BuildReturn(c, res)
    ELSE IF name = "audit_test" THEN TestsReturn(c, res)
    ELSE InvariantsReturn(res)

\* ------------------------------------------------------------------------
\* execCommand
\* ------------------------------------------------------------------------

\* Maximum output size to capture
MAX_OUTPUT_SIZE == 10 * 1024

\* "\n[Output truncated...]"
MarkerChars ==
    <<"\n","[","O","u","t","p","u","t"," ","t","r","u","n","c","a","t","e","d",".",".",".","]">>

TruncationMarker == Lit(MarkerChars)

\* a chunk whose code unit at the budget is the first half of a character
\* outside the basic plane
AstralAtBudget ==
    Concat(Rep(".", MAX_OUTPUT_SIZE - 1),
           Lit(<<CharClass.HighSurrogate, CharClass.LowSurrogate>>))

Chunks == {Dot, Labelled, HexKey, Rep(".", MAX_OUTPUT_SIZE), AstralAtBudget}

\* the exit code a close event carries; Null when a signal ended the process
ExitCodes == {Some(0), Some(1), Null}

VARIABLES
    pc,          \* "idle", "rejected" (a validation threw), "noexec" (the
                 \* operation returned without a command), "running"
    cmd, args,   \* the executable and the argument vector of the call
    thrown,      \* the error the validations threw
    spawnCount,  \* the number of calls of spawn
    proc,        \* "none", "running", "spawnfail" (could not start, error
                 \* event pending), "dead" (could not start), "closed"
    stdout, stderr, timedOut,    \* the locals of the promise executor
    timeoutId,   \* the timeout timer: "none", "armed", "fired", "cleared"
    graceTimer,  \* the inner 5 s timer: "none", "armed", "fired"
    kills,       \* the signals passed to proc.kill, in order
    delivered,   \* the results the caller of execCommand has received
    resolveCalls,\* the number of calls of resolvePromise
    discarded,   \* per stream, the number of characters not kept
    nData,       \* the number of data events so far
    rIn, rOut,   \* a text and the results of applying redactSecrets to it
    tool,        \* the operation the handler runs: "none" for a direct call
                 \* of execCommand, "audit_build", "audit_test",
                 \* "audit_invariants"
    result,      \* what the operation returned: Null or Some(result)
    response,    \* what the handler returned: Null or Some(response)
    pIn, parsed, \* an output given to the parsers, and what they make of it
    project,     \* the project of the call of an operation: input.projectPath
                 \* and input.mode, the configuration files in the directory,
                 \* and what validateProjectPath returned (Null when it threw)
    calls        \* the locals of the promise executors of two calls of
                 \* execCommand that run at the same time, and the events each
                 \* has handled

vars == <<pc, cmd, args, thrown, spawnCount, proc, stdout, stderr, timedOut,
          timeoutId, graceTimer, kills, delivered, resolveCalls, discarded,
          nData, rIn, rOut, pIn, parsed, tool, result, response, project,
          calls>>

execVars == <<pc, cmd, args, thrown, spawnCount, proc, stdout, stderr, timedOut,
              timeoutId, graceTimer, kills, delivered, resolveCalls, discarded,
              nData>>

\* the locals of the promise executor of a call of execCommand that has not
\* reached spawn
NewCall(c) ==
    [cmd |-> c, proc |-> "none", stdout |-> <<>>, stderr |-> <<>>,
     timedOut |-> FALSE, timeoutId |-> "none", graceTimer |-> "none",
     kills |-> <<>>, delivered |-> <<>>]

\* two calls, of forge and of npx, that have handled no event
NoCalls ==
    [locals |-> <<NewCall(Command.forge), NewCall(Command.npx)>>,
     events |-> <<(<<>>), (<<>>)>>]

Idle ==
    /\ pc = "idle"
    /\ cmd = <<>>
    /\ args = <<>>
    /\ thrown = NoError
    /\ spawnCount = 0
    /\ proc = "none"
    /\ stdout = <<>>
    /\ stderr = <<>>
    /\ timedOut = FALSE
    /\ timeoutId = "none"
    /\ graceTimer = "none"
    /\ kills = <<>>
    /\ delivered = <<>>
    /\ resolveCalls = 0
    /\ discarded = [stdout |-> 0, stderr |-> 0]
    /\ nData = 0
    /\ tool = "none"
    /\ result = Null
    /\ response = Null
    /\ project = NoProject
    /\ calls = NoCalls

\* no output is given to the parsers
NoInput == [kind |-> "none", lines |-> <<>>]

Init == Idle /\ rIn = <<>> /\ rOut = <<>> /\ pIn = NoInput /\ parsed = Null

\* execCommand(c, a, cwd, timeoutMs) up to the return of the promise: the two
\* validations, then spawn and the arming of the timeout.  started tells
\* whether the operating system could start the process.
ExecCommand(c, a, started) ==
    /\ pc = "idle"
    /\ cmd' = c
    /\ args' = a
    /\ thrown' = Gate(c, a)
    /\ IF Gate(c, a) # NoError
       THEN /\ pc' = "rejected"
            /\ UNCHANGED <<spawnCount, proc, timeoutId>>
       ELSE /\ pc' = "running"
            /\ spawnCount' = spawnCount + 1
            /\ proc' = IF started THEN "running" ELSE "spawnfail"
            /\ timeoutId' = "armed"
    /\ UNCHANGED <<stdout, stderr, timedOut, graceTimer, kills, delivered,
                   resolveCalls, discarded, nData, rIn, rOut, pIn, parsed, calls>>

\* a direct call of execCommand
Call ==
    \E c \in CmdPool, a \in ArgVecs, started \in BOOLEAN :
        /\ ExecCommand(c, a, started)
        /\ UNCHANGED <<tool, result, response, project>>

\* if (match) : null and the empty string are falsy
Truthy(match) == match # Null /\ match[1] # <<>>

\* the fixed arguments of the operations
ArgWord ==
    [ test |-> Lit(<<"t","e","s","t">>),
      vvv |-> Lit(<<"-","v","v","v">>),
      match_test |-> Lit(<<"-","-","m","a","t","c","h","-","t","e","s","t">>),
      hardhat |-> Lit(<<"h","a","r","d","h","a","t">>),
      grep |-> Lit(<<"-","-","g","r","e","p">>),
      build |-> Lit(<<"b","u","i","l","d">>),
      force |-> Lit(<<"-","-","f","o","r","c","e">>),
      compile |-> Lit(<<"c","o","m","p","i","l","e">>),
      invariant |-> Lit(<<"i","n","v","a","r","i","a","n","t">>) ]

\* the command of runTests
testCmd(foundry) == IF foundry THEN Command.forge ELSE Command.npx

testArgs(foundry, match, extraArgs) ==
    IF foundry
    THEN <<ArgWord.test, ArgWord.vvv>>
         \o (IF Truthy(match)
             THEN <<ArgWord.match_test, match[1]>>
             ELSE <<>>)
         \o extraArgs
    ELSE <<ArgWord.hardhat, ArgWord.test>>
         \o (IF Truthy(match) THEN <<ArgWord.grep, match[1]>> ELSE <<>>)
         \o extraArgs

\* the command of buildProject
buildArgs(foundry, extraArgs) ==
    IF foundry
    THEN <<ArgWord.build, ArgWord.force>> \o extraArgs
    ELSE <<ArgWord.hardhat, ArgWord.compile, ArgWord.force>> \o extraArgs

\* the command of runInvariants
invariantArgs(extraArgs) ==
    <<ArgWord.test, ArgWord.match_test, ArgWord.invariant, ArgWord.vvv>> \o extraArgs

\* the texts of tools/detect.ts
DetectText ==
    [ foundry |-> <<"f","o","u","n","d","r","y">>,
      hardhat |-> <<"h","a","r","d","h","a","t">>,
      unknown |-> <<"u","n","k","n","o","w","n">>,
      Hybrid |->
        <<"H","y","b","r","i","d"," ","p","r","o","j","e","c","t"," ","d","e",
          "t","e","c","t","e","d"," ","(","b","o","t","h"," ","F","o","u","n",
          "d","r","y"," ","a","n","d"," ","H","a","r","d","h","a","t",")",".",
          " ","U","s","i","n","g"," ","F","o","u","n","d","r","y"," ","f","o",
          "r"," ","b","u","i","l","d","/","t","e","s","t",".">>,
      CouldNotDetect |->
        <<"C","o","u","l","d"," ","n","o","t"," ","d","e","t","e","c","t"," ",
          "p","r","o","j","e","c","t"," ","t","y","p","e","."," ","N","o"," ",
          "f","o","u","n","d","r","y",".","t","o","m","l"," ","o","r"," ","h",
          "a","r","d","h","a","t",".","c","o","n","f","i","g"," ","f","o","u",
          "n","d",".">>,
      HardhatDetected |->
        <<"H","a","r","d","h","a","t"," ","p","r","o","j","e","c","t"," ","d",
          "e","t","e","c","t","e","d","."," ","C","o","n","s","i","d","e","r",
          " ","u","s","i","n","g"," ","F","o","u","n","d","r","y"," ","f","o",
          "r"," ","f","u","z","z","/","i","n","v","a","r","i","a","n","t"," ",
          "t","e","s","t","i","n","g",".">> ]

\* what detectProject returns for a directory whose configuration files are
\* empty and that holds no Solidity file, no contracts, src, test or script
\* and no remappings.txt
detectProject(isFoundry, isHardhat) ==
    LET projectType == IF isFoundry THEN DetectText.foundry
                       ELSE IF isHardhat THEN DetectText.hardhat
                       ELSE DetectText.unknown
        CommandSpec(c, a) == Some([cmd |-> c, args |-> a])
    IN  [projectType |-> projectType,
         solidityVersionHints |-> <<>>,
         buildCommand |->
             IF projectType = DetectText.foundry
             THEN CommandSpec(Command.forge, <<ArgWord.build>>)
             ELSE IF projectType = DetectText.hardhat
             THEN CommandSpec(Command.npx, <<ArgWord.hardhat, ArgWord.compile>>)
             ELSE Null,
         testCommand |->
             IF projectType = DetectText.foundry
             THEN CommandSpec(Command.forge, <<ArgWord.test, ArgWord.vvv>>)
             ELSE IF projectType = DetectText.hardhat
             THEN CommandSpec(Command.npx, <<ArgWord.hardhat, ArgWord.test>>)
             ELSE Null,
         invariantCommand |->
             IF projectType = DetectText.foundry
             THEN CommandSpec(Command.forge, <<ArgWord.test, ArgWord.match_test,
                                        ArgWord.invariant, ArgWord.vvv>>)
             ELSE Null,
         notes |-> (IF isFoundry /\ isHardhat THEN <<DetectText.Hybrid>>
                    ELSE IF ~isFoundry /\ ~isHardhat THEN <<DetectText.CouldNotDetect>>
                    ELSE <<>>)
                   \o (IF projectType = DetectText.hardhat
                       THEN <<DetectText.HardhatDetected>> ELSE <<>>)]

\* an operation returns the result res without running a command
NoExec(name, res) ==
    /\ pc = "idle"
    /\ pc' = "noexec"
    /\ tool' = name
    /\ result' = Some(res)
    /\ response' = Some(Response(name, res))
    /\ UNCHANGED <<cmd, args, thrown, spawnCount, proc, stdout, stderr, timedOut,
                   timeoutId, graceTimer, kills, delivered, resolveCalls,
                   discarded, nData, rIn, rOut, pIn, parsed, calls>>

\* validateProjectPath throws at the head of an operation
BadPath(name, error) ==
    /\ pc = "idle"
    /\ pc' = "badpath"
    /\ thrown' = error
    /\ tool' = name
    /\ result' = Null
    /\ response' = Some(ErrorResponse(name, ErrorMessage(error)))
    /\ UNCHANGED <<cmd, args, spawnCount, proc, stdout, stderr, timedOut,
                   timeoutId, graceTimer, kills, delivered, resolveCalls,
                   discarded, nData, rIn, rOut, pIn, parsed, calls>>

\* the paths given as input.projectPath: a directory, a directory through
\* the parent of another, a relative path through the parent of the working
\* directory, a relative name, a directory that does not exist, a path
\* through one, and a directory whose name holds two dots
ProjectPaths ==
    {<<"/","p">>, <<"/","p","/",".",".","/","q">>, <<".",".","/","p">>,
     <<"q">>, <<"/","x">>, <<"/","x","/",".",".","/","p">>,
     <<"/","p","/","a",".",".","b">>}

ConfigFiles == {"foundry.toml", "hardhat.config.ts", "hardhat.config.js"}

\* input.mode of buildProject
Modes == {"auto", "foundry", "hardhat"}

\* the paths and the directories of the calls that the authorization gate
\* is followed on
GatePaths == {<<"/","p">>, <<"/","x">>}

GateFiles == {{}, {"foundry.toml"}, {"hardhat.config.ts"}}

\* the handler calls detectProject
DetectProject(projectPath, files) ==
    /\ pc = "idle"
    /\ project' = Project(projectPath, "auto", files)
    /\ IF project'.validated = Null
       THEN BadPath("audit_detect", validateProjectPath(projectPath).thrown)
       ELSE NoExec("audit_detect",
                   detectProject(isFoundryProject(files), isHardhatProject(files)))


\* a default case that answers without the error flag
UnknownResponse_NoError(name) ==
    [isError           |-> FALSE,
     text              |-> IndexText.UnknownTool \o name,
     structuredContent |-> Null]

\* the response of the handler for a name that is no operation
UnknownResponse(name) ==
    [isError           |-> TRUE,
     text              |-> IndexText.UnknownTool \o name,
     structuredContent |-> Null]

\* names that are no operation
UnknownNames ==
    {<<"a","u","d","i","t","_","s","l","i","t","h","e","r">>, <<>>}

\* the default case of the handler
UnknownTool ==
    \E name \in UnknownNames :
        /\ pc = "idle"
        /\ pc' = "unknown"
        /\ tool' = "unknown"
        /\ result' = Null
        /\ response' = Some(UnknownResponse(name))
        /\ UNCHANGED <<cmd, args, thrown, spawnCount, proc, stdout, stderr,
                       timedOut, timeoutId, graceTimer, kills, delivered,
                       resolveCalls, discarded, nData, rIn, rOut, pIn, parsed,
                       project, calls>>

\* an operation calls execCommand; what a validation throws reaches the
\* catch block of the handler
Invoke(name, c, a, started) ==
    /\ ExecCommand(c, a, started)
    /\ tool' = name
    /\ result' = Null
    /\ response' = IF Gate(c, a) # NoError
                   THEN Some(ErrorResponse(name, ErrorMessage(Gate(c, a))))
                   ELSE Null

\* the handler calls runTests, which runs up to its call of execCommand, on
\* the path projectPath and a directory with the configuration files files
runTests(projectPath, files, match, extraArgs, started) ==
    /\ pc = "idle"
    /\ project' = Project(projectPath, "auto", files)
    /\ IF project'.validated = Null
       THEN BadPath("audit_test", validateProjectPath(projectPath).thrown)
       ELSE IF isFoundryProject(files) \/ isHardhatProject(files)
       THEN Invoke("audit_test", testCmd(isFoundryProject(files)),
                   testArgs(isFoundryProject(files), match, extraArgs), started)
       ELSE NoExec("audit_test", TestsUnknownProject)

RunTests ==
    \E projectPath \in GatePaths, files \in GateFiles, match \in MatchPool,
       extraArgs \in ArgVecs, started \in BOOLEAN :
        runTests(projectPath, files, match, extraArgs, started)

\* the handler calls buildProject, which runs up to its call of execCommand
buildProject(projectPath, mode, files, extraArgs, started) ==
    /\ pc = "idle"
    /\ project' = Project(projectPath, mode, files)
    /\ IF project'.validated = Null
       THEN BadPath("audit_build", validateProjectPath(projectPath).thrown)
       ELSE IF mode = "foundry" \/ (mode = "auto" /\ isFoundryProject(files))
       THEN Invoke("audit_build", Command.forge, buildArgs(TRUE, extraArgs), started)
       ELSE IF mode = "hardhat" \/ (mode = "auto" /\ isHardhatProject(files))
       THEN Invoke("audit_build", Command.npx, buildArgs(FALSE, extraArgs), started)
       ELSE NoExec("audit_build", BuildUnknownProject)

BuildProject ==
    \E projectPath \in GatePaths, mode \in Modes, files \in GateFiles,
       extraArgs \in ArgVecs, started \in BOOLEAN :
        buildProject(projectPath, mode, files, extraArgs, started)


runInvariants_ForgeUnlessHardhat(projectPath, files, extraArgs, started) ==
    /\ pc = "idle"
    /\ project' = Project(projectPath, "auto", files)
    /\ IF project'.validated = Null
       THEN BadPath("audit_invariants", validateProjectPath(projectPath).thrown)
       ELSE IF isHardhatProject(files) /\ ~isFoundryProject(files)
       THEN NoExec("audit_invariants", InvariantsHardhatOnly)
       ELSE Invoke("audit_invariants", Command.forge, invariantArgs(extraArgs), started)

\* the handler calls runInvariants, which runs up to its call of execCommand
runInvariants(projectPath, files, extraArgs, started) ==
    /\ pc = "idle"
    /\ project' = Project(projectPath, "auto", files)
    /\ IF project'.validated = Null
       THEN BadPath("audit_invariants", validateProjectPath(projectPath).thrown)
       ELSE IF isHardhatProject(files) /\ ~isFoundryProject(files)
       THEN NoExec("audit_invariants", InvariantsHardhatOnly)
       ELSE IF ~isFoundryProject(files)
       THEN NoExec("audit_invariants", InvariantsNoFoundry)
       ELSE Invoke("audit_invariants", Command.forge, invariantArgs(extraArgs), started)

RunInvariants ==
    \E projectPath \in GatePaths, files \in GateFiles, extraArgs \in ArgVecs,
       started \in BOOLEAN :
        runInvariants(projectPath, files, extraArgs, started)

\* the operation and the handler from the return of execCommand on
Returned ==
    /\ pc = "running"
    /\ tool # "none"
    /\ delivered # <<>>
    /\ response = Null
    /\ result' = Some(ToolReturn(tool, cmd, delivered[1]))
    /\ response' = Some(Response(tool, result'[1]))
    /\ UNCHANGED <<pc, cmd, args, thrown, spawnCount, proc, stdout, stderr, timedOut,
                   timeoutId, graceTimer, kills, delivered, resolveCalls, discarded,
                   nData, rIn, rOut, pIn, parsed, tool, calls, project>>

\* the body of a data handler: the new value of the accumulator acc
Accumulate(acc, chunk) ==
    IF StrLen(acc) + StrLen(chunk) <= MAX_OUTPUT_SIZE
    THEN Concat(acc, chunk)
    ELSE IF StrLen(acc) < MAX_OUTPUT_SIZE
         THEN Concat(Concat(acc, Take(chunk, MAX_OUTPUT_SIZE - StrLen(acc))),
                     TruncationMarker)
         ELSE acc

\* the number of characters of chunk that the data handler does not keep
Dropped(acc, chunk) ==
    IF StrLen(acc) + StrLen(chunk) <= MAX_OUTPUT_SIZE THEN 0
    ELSE IF StrLen(acc) < MAX_OUTPUT_SIZE
         THEN StrLen(chunk) - (MAX_OUTPUT_SIZE - StrLen(acc))
         ELSE StrLen(chunk)

\* the process is alive and its pipes are open
Streaming == pc = "running" /\ proc = "running" /\ nData < MaxData

\* proc.stdout.on("data", ...) for one chunk
StdoutChunk(chunk) ==
    /\ Streaming
    /\ stdout' = Accumulate(stdout, chunk)
    /\ discarded' = [discarded EXCEPT !.stdout = @ + Dropped(stdout, chunk)]
    /\ nData' = nData + 1
    /\ UNCHANGED <<pc, cmd, args, thrown, spawnCount, proc, stderr, timedOut,
                   timeoutId, graceTimer, kills, delivered, resolveCalls,
                   rIn, rOut, pIn, parsed, tool, result, response, calls, project>>

StdoutData == \E chunk \in Chunks : StdoutChunk(chunk)

\* proc.stderr.on("data", ...) for one chunk
StderrChunk(chunk) ==
    /\ Streaming
    /\ stderr' = Accumulate(stderr, chunk)
    /\ discarded' = [discarded EXCEPT !.stderr = @ + Dropped(stderr, chunk)]
    /\ nData' = nData + 1
    /\ UNCHANGED <<pc, cmd, args, thrown, spawnCount, proc, stdout, timedOut,
                   timeoutId, graceTimer, kills, delivered, resolveCalls,
                   rIn, rOut, pIn, parsed, tool, result, response, calls, project>>

StderrData == \E chunk \in Chunks : StderrChunk(chunk)

\* a promise that takes the value of the last call
ResolvePromise_Last(r) == <<r>>

\* resolvePromise(r): a promise settles once, later calls have no effect
ResolvePromise(r) == IF delivered = <<>> THEN <<r>> ELSE delivered

\* clearTimeout(timeoutId)
ClearTimeout == IF timeoutId = "armed" THEN "cleared" ELSE timeoutId

\* the result the close handler builds from the redacted streams
CloseResult(out, err, code) ==
    [stdout   |-> out,
     stderr   |-> err,
     exitCode |-> IF code # Null THEN code[1] ELSE IF timedOut THEN 124 ELSE 1,
     timedOut |-> timedOut]

\* err.message of the error event: the process could not be spawned, or a
\* signal could not be sent
SpawnMessage(c) ==
    LET SpawnPrefix == Lit(<<"s","p","a","w","n"," ">>)
        SpawnSuffix == Lit(<<" ","E","N","O","E","N","T">>)
    IN  Concat(SpawnPrefix, Concat(c, SpawnSuffix))

KillMessage == Lit(<<"k","i","l","l"," ","E","P","E","R","M">>)

\* "Failed to execute command: "
FailedPrefix ==
    Lit(<<"F","a","i","l","e","d"," ","t","o"," ","e","x","e","c","u","t","e",
          " ","c","o","m","m","a","n","d",":"," ">>)

\* an error handler that reports exit code 0
ErrorResult_ExitZero(message) ==
    [stdout   |-> <<>>,
     stderr   |-> Concat(FailedPrefix, message),
     exitCode |-> 0,
     timedOut |-> FALSE]

\* the result the error handler builds
ErrorResult(message) ==
    [stdout   |-> <<>>,
     stderr   |-> Concat(FailedPrefix, message),
     exitCode |-> 1,
     timedOut |-> FALSE]

\* proc.on("close", ...): the process has ended and its pipes are closed
Close ==
    LET out == redactSecrets(stdout)
        err == redactSecrets(stderr)
    IN  /\ pc = "running"
        /\ proc \in {"running", "dead"}
        /\ proc' = "closed"
        /\ timeoutId' = ClearTimeout
        /\ \E code \in ExitCodes :
               delivered' = ResolvePromise(CloseResult(out, err, code))
        /\ resolveCalls' = resolveCalls + 1
        /\ UNCHANGED <<pc, cmd, args, thrown, spawnCount, stdout, stderr, timedOut,
                       graceTimer, kills, discarded, nData, rIn, rOut, pIn, parsed, tool, result,
                   response, calls, project>>

\* proc.on("error", ...) for a process that could not be spawned; the event
\* is emitted before any timer can run
SpawnError ==
    /\ pc = "running"
    /\ proc = "spawnfail"
    /\ proc' = "dead"
    /\ timeoutId' = ClearTimeout
    /\ delivered' = ResolvePromise(ErrorResult(SpawnMessage(cmd)))
    /\ resolveCalls' = resolveCalls + 1
    /\ UNCHANGED <<pc, cmd, args, thrown, spawnCount, stdout, stderr, timedOut,
                   graceTimer, kills, discarded, nData, rIn, rOut, pIn, parsed, tool, result,
                   response, calls, project>>

\* proc.kill(signal) in a timer callback: when the signal cannot be sent the
\* error event is emitted at once and the error handler runs
KillFails(sent) == ~sent /\ proc = "running"

\* a timeout that sends SIGTERM and never escalates
TimeoutFire_NoEscalation ==
    \E sent \in BOOLEAN :
        /\ pc = "running"
        /\ proc = "running"
        /\ timeoutId = "armed"
        /\ timeoutId' = "fired"
        /\ timedOut' = TRUE
        /\ kills' = Append(kills, "SIGTERM")
        /\ UNCHANGED <<pc, cmd, args, thrown, spawnCount, proc, stdout, stderr,
                       graceTimer, delivered, resolveCalls, discarded, nData,
                       rIn, rOut, pIn, parsed, tool, result,
                   response, calls, project>>

\* the callback of the timeout timer
TimeoutFire ==
    \E sent \in BOOLEAN :
        /\ pc = "running"
        /\ proc = "running"
        /\ timeoutId = "armed"
        /\ timeoutId' = "fired"
        /\ timedOut' = TRUE
        /\ kills' = Append(kills, "SIGTERM")
        /\ graceTimer' = "armed"
        /\ IF KillFails(sent)
           THEN /\ delivered' = ResolvePromise(ErrorResult(KillMessage))
                /\ resolveCalls' = resolveCalls + 1
           ELSE UNCHANGED <<delivered, resolveCalls>>
        /\ UNCHANGED <<pc, cmd, args, thrown, spawnCount, proc, stdout, stderr,
                       discarded, nData, rIn, rOut, pIn, parsed, tool, result,
                   response, calls, project>>

\* the callback of the inner timer, 5000 ms after the timeout
GraceFire ==
    \E sent \in BOOLEAN :
        /\ graceTimer = "armed"
        /\ graceTimer' = "fired"
        /\ kills' = Append(kills, "SIGKILL")
        /\ IF KillFails(sent)
           THEN /\ delivered' = ResolvePromise(ErrorResult(KillMessage))
                /\ resolveCalls' = resolveCalls + 1
           ELSE UNCHANGED <<delivered, resolveCalls>>
        /\ UNCHANGED <<pc, cmd, args, thrown, spawnCount, proc, stdout, stderr,
                       timedOut, timeoutId, discarded, nData, rIn, rOut, pIn, parsed, tool, result,
                   response, calls, project>>

\* the operation whose process the execution claims follow: runInvariants
\* or runTests with no filter and no extra arguments
Start ==
    \E started \in BOOLEAN :
        /\ \/ ExecCommand(Command.forge, invariantArgs(<<>>), started)
           \/ ExecCommand(Command.npx, testArgs(FALSE, Null, <<>>), started)
        /\ UNCHANGED <<tool, result, response, project>>

\* the process events and the timers of a call
Events ==
    \/ StdoutData
    \/ StderrData
    \/ Close
    \/ SpawnError
    \/ TimeoutFire
    \/ GraceFire

\* one call of execCommand and everything that follows it
Next == Start \/ Events

Spec == Init /\ [][Next]_vars

\* the calls of execCommand, from every operation and every input
GateNext ==
    \/ Call
    \/ RunTests
    \/ BuildProject
    \/ RunInvariants

GateSpec == Init /\ [][GateNext]_vars

\* ------------------------------------------------------------------------
\* Liveness: the timers run when due, a process that could not start reports
\* it, and a process that was sent SIGKILL ends
\* ------------------------------------------------------------------------

\* the error event of a failed spawn is pending
SpawnErrorPending ==
    /\ pc = "running"
    /\ proc = "spawnfail"

\* the step of SpawnError, told by the change of proc that only it makes
SpawnErrorStep == SpawnErrorPending /\ proc' = "dead"

\* the process has been sent SIGKILL by the inner timer and has not closed
KilledPending ==
    /\ graceTimer = "fired"
    /\ pc = "running"
    /\ proc \in {"running", "dead"}

\* the step of Close for such a process
KilledClose == KilledPending /\ proc' = "closed"

\* weak fairness of SpawnError and of the Close of a killed process, written
\* out with the enabling conditions of the two handlers
EventFairness ==
    /\ ([]<>(~SpawnErrorPending) \/ []<><<SpawnErrorStep>>_vars)
    /\ ([]<>(~KilledPending) \/ []<><<KilledClose>>_vars)

LiveSpec ==
    /\ Spec
    /\ WF_vars(TimeoutFire)
    /\ WF_vars(GraceFire)
    /\ EventFairness

\* ------------------------------------------------------------------------
\* Two calls of execCommand that run at the same time
\* ------------------------------------------------------------------------

\* the number of events a call handles, the call of spawn being the first
MaxCallEvents == 3

\* what the processes of the two calls write in a data event
PairChunk == [stdout |-> HexKey, stderr |-> Labelled]

\* the events of a call: spawn and the arming of the timeout, a data event of
\* a stream, close, the error event of a failed spawn, and the two timers
CallEvents ==
    {[kind |-> "spawn", started |-> b] : b \in BOOLEAN}
    \cup {[kind |-> k] : k \in {"stdout", "stderr", "error"}}
    \cup {[kind |-> "close", code |-> c] : c \in {Some(0), Null}}
    \cup {[kind |-> k, sent |-> b] : k \in {"timeout", "grace"}, b \in BOOLEAN}

\* the event e can happen to the call with the locals l
Handles(l, e) ==
    IF e.kind = "spawn" THEN l.proc = "none"
    ELSE IF e.kind \in {"stdout", "stderr"} THEN l.proc = "running"
    ELSE IF e.kind = "close" THEN l.proc \in {"running", "dead"}
    ELSE IF e.kind = "error" THEN l.proc = "spawnfail"
    ELSE IF e.kind = "timeout" THEN l.proc = "running" /\ l.timeoutId = "armed"
    ELSE l.graceTimer = "armed"

\* the locals l of a call after the executor, a handler or a timer callback
\* of execCommand has run for the event e
Handle(l, e) ==
    LET Resolved(r) == IF l.delivered = <<>> THEN <<r>> ELSE l.delivered
        Cleared == IF l.timeoutId = "armed" THEN "cleared" ELSE l.timeoutId
        Killed(m, signal) ==
            [m EXCEPT !.kills = Append(@, signal),
                      !.delivered = IF ~e.sent /\ l.proc = "running"
                                    THEN Resolved(ErrorResult(KillMessage))
                                    ELSE @]
    IN  IF e.kind = "spawn"
        THEN [l EXCEPT !.proc = IF e.started THEN "running" ELSE "spawnfail",
                       !.timeoutId = "armed"]
        ELSE IF e.kind = "stdout"
        THEN [l EXCEPT !.stdout = Accumulate(@, PairChunk.stdout)]
        ELSE IF e.kind = "stderr"
        THEN [l EXCEPT !.stderr = Accumulate(@, PairChunk.stderr)]
        ELSE IF e.kind = "close"
        THEN [l EXCEPT !.proc = "closed",
                       !.timeoutId = Cleared,
                       !.delivered = Resolved(
                           [stdout   |-> redactSecrets(l.stdout),
                            stderr   |-> redactSecrets(l.stderr),
                            exitCode |-> IF e.code # Null THEN e.code[1]
                                         ELSE IF l.timedOut THEN 124 ELSE 1,
                            timedOut |-> l.timedOut])]
        ELSE IF e.kind = "error"
        THEN [l EXCEPT !.proc = "dead",
                       !.timeoutId = Cleared,
                       !.delivered = Resolved(ErrorResult(SpawnMessage(l.cmd)))]
        ELSE IF e.kind = "timeout"
        THEN Killed([l EXCEPT !.timeoutId = "fired", !.timedOut = TRUE,
                              !.graceTimer = "armed"], "SIGTERM")
        ELSE Killed([l EXCEPT !.graceTimer = "fired"], "SIGKILL")

\* the locals that the handlers of both calls work on, were they not the
\* locals of a closure
Local_Shared(i) == 1

\* the locals that the handlers of call i work on: those of the closure of
\* its own promise executor
Local(i) == i

\* an event of one of the two calls
PairEvent ==
    \E i \in 1..2, e \in CallEvents :
        /\ Len(calls.events[i]) < MaxCallEvents
        /\ Handles(calls.locals[Local(i)], e)
        /\ calls' = [calls EXCEPT !.locals[Local(i)] = Handle(@, e),
                                  !.events[i] = Append(@, e)]
        /\ UNCHANGED <<execVars, rIn, rOut, pIn, parsed, tool, result, response,
                       project>>

PairSpec == Init /\ [][PairEvent]_vars

\* ------------------------------------------------------------------------
\* The handler on every project directory
\* ------------------------------------------------------------------------

\* the handler is called for one of the operations, with no filter and no
\* extra arguments
ProjectCall ==
    \E projectPath \in ProjectPaths, files \in SUBSET ConfigFiles, mode \in Modes,
       started \in BOOLEAN :
        \/ DetectProject(projectPath, files)
        \/ runTests(projectPath, files, Null, <<>>, started)
        \/ buildProject(projectPath, mode, files, <<>>, started)
        \/ runInvariants(projectPath, files, <<>>, started)

ProjectSpec == Init /\ [][ProjectCall]_vars

\* ------------------------------------------------------------------------
\* Redaction of a given text
\* ------------------------------------------------------------------------

\* the pieces the texts are made of
Pieces ==
    {Lit(<<"0", "x">>), Rep("a", KeyHexDigits),
     Lit(<<"t","o","k","e","n","=","v">>), Lit(<<"A","p","i","-","K","e","y">>),
     Lit(<<"m","n","e","m","o","n","i","c">>),
     Rep("=", 1), Rep("'", 1), Rep(" ", 1), Rep(".", 1), Rep("v", 1), REDACTED}

\* the concatenation of the strings of the sequence q
RECURSIVE Join(_)
Join(q) == IF q = <<>> THEN <<>> ELSE Concat(q[1], Join(Tail(q)))

Texts == {Join(q) : q \in UNION {[1..n -> Pieces] : n \in 0..MaxPieces}}

RedactInit == Idle /\ rIn \in Texts /\ rOut = <<>> /\ pIn = NoInput /\ parsed = Null

\* redactSecrets applied to the text, then to its own result
Redact ==
    /\ Len(rOut) < 2
    /\ rOut' = Append(rOut, redactSecrets(IF rOut = <<>> THEN rIn ELSE rOut[Len(rOut)]))
    /\ UNCHANGED <<rIn, execVars, pIn, parsed, tool, result, response, calls, project>>

RedactSpec == RedactInit /\ [][Redact]_vars

\* ------------------------------------------------------------------------
\* The operations from the call of the handler to its response
\* ------------------------------------------------------------------------

\* what a process writes in one data event of an operation
BuildSample ==
    <<"E","r","r","o","r",":"," ","U","n","u","s","e","d"," ","v","a","r","i",
      "a","b","l","e","\n"," ","-","-",">"," ","s","r","c","/","V","a","u",
      "l","t",".","s","o","l",":","4","2",":","5","\n">>

TestSample ==
    <<"[","F","A","I","L",":"," ","r","e","v","e","r","t","]"," ","t","e","s",
      "t","W","i","t","h","d","r","a","w","(",")","\n","1"," ","p","a","s",
      "s","e","d",","," ","1"," ","f","a","i","l","e","d","\n">>

InvariantSample ==
    <<"[","F","A","I","L",":"," ","r","e","v","e","r","t","]"," ","i","n","v",
      "a","r","i","a","n","t","_","s","o","l","v","e","n","c","y","(",")",
      "\n">>

PlainSample == <<"C","o","m","p","i","l","i","n","g",".",".",".","\n">>

ToolChunks(name) ==
    {Lit(PlainSample),
     Lit(IF name = "audit_build" THEN BuildSample
         ELSE IF name = "audit_test" THEN TestSample
         ELSE InvariantSample)}

\* the extra arguments of the calls: none, or one that validateArgs rejects
ToolArgs == {<<>>, <<ArgWith(";")>>}

\* the handler is called for one of the operations, with no filter
ToolStart ==
    \E projectPath \in GatePaths, files \in GateFiles, extraArgs \in ToolArgs,
       started \in BOOLEAN :
        \/ DetectProject(projectPath, files)
        \/ runTests(projectPath, files, Null, extraArgs, started)
        \/ buildProject(projectPath, "auto", files, extraArgs, started)
        \/ runInvariants(projectPath, files, extraArgs, started)

\* the process of the operation writes to its standard output
ToolStdout == \E chunk \in ToolChunks(tool) : StdoutChunk(chunk)

ToolNext ==
    \/ ToolStart
    \/ ToolStdout
    \/ Close
    \/ SpawnError
    \/ TimeoutFire
    \/ GraceFire
    \/ Returned
    \/ UnknownTool

ToolSpec == Init /\ [][ToolNext]_vars

\* ------------------------------------------------------------------------
\* Truncation of a given text
\* ------------------------------------------------------------------------

\* the display budgets the callers of truncate pass
DisplayBudgets == {500, 1000, 2000}

\* how far from the budget the lengths of the texts go
TruncateMargin == 21

\* a text of n characters
TextOf(n) == [i \in 1..n |-> CharClass.DigitChars[(i % 10) + 1]]

\* a budget, and a text that is empty, about as long as the budget, or twice
\* as long
TruncateInputs ==
    {[kind |-> "truncate", maxLength |-> m, text |-> TextOf(n)] :
        <<m, n>> \in {mn \in DisplayBudgets \X (0..(2 * 2000)) :
                         \/ mn[2] \in {0, 2 * mn[1]}
                         \/ /\ mn[2] >= mn[1] - TruncateMargin
                            /\ mn[2] <= mn[1] + TruncateMargin}}

TruncateInit ==
    Idle /\ rIn = <<>> /\ rOut = <<>> /\ pIn \in TruncateInputs /\ parsed = <<>>

\* truncate applied to the text, then to its own result
Truncate ==
    /\ Len(parsed) < 2
    /\ parsed' = Append(parsed, truncate(IF parsed = <<>> THEN pIn.text
                                         ELSE parsed[Len(parsed)],
                                         pIn.maxLength))
    /\ UNCHANGED <<execVars, rIn, rOut, pIn, tool, result, response, calls, project>>

TruncateSpec == TruncateInit /\ [][Truncate]_vars

\* ------------------------------------------------------------------------
\* Parsing of a given output
\* ------------------------------------------------------------------------

\* the number of lines of an output
MaxLines == 3

\* lines of the output of forge build
L_Error ==
    <<"E","r","r","o","r",":"," ","U","n","u","s","e","d"," ","v","a","r","i",
      "a","b","l","e","\n">>

L_ErrorWarning ==
    <<"E","r","r","o","r",":"," ","W","a","r","n","i","n","g"," ","t","r","e",
      "a","t","e","d"," ","a","s"," ","e","r","r","o","r","\n">>

L_Warning ==
    <<"W","a","r","n","i","n","g",":"," ","U","n","u","s","e","d"," ","l","o",
      "c","a","l"," ","v","a","r","i","a","b","l","e","\n">>

L_Note ==
    <<"d","e","c","l","a","r","e","d"," ","b","u","t"," ","n","e","v","e","r",
      " ","r","e","a","d","\n">>

L_ArrowVault ==
    <<" ","-","-",">"," ","s","r","c","/","V","a","u","l","t",".","s","o","l",
      ":","4","2",":","5","\n">>

L_ArrowTest ==
    <<" "," ","-","-",">"," ","t","e","s","t","/","V","a","u","l","t",".","t",
      ".","s","o","l",":","7",":","1","\n">>

\* lines of the output of forge test
L_Pass ==
    <<"[","P","A","S","S","]"," ","t","e","s","t","D","e","p","o","s","i","t",
      "(",")","\n">>

L_FailReason ==
    <<"[","F","A","I","L",":"," ","r","e","v","e","r","t","]"," ","t","e","s",
      "t","W","i","t","h","d","r","a","w","(",")","\n">>

L_Summary11 ==
    <<"1"," ","p","a","s","s","e","d",","," ","1"," ","f","a","i","l","e","d",
      "\n">>

L_Summary20 ==
    <<"2"," ","p","a","s","s","e","d",";"," ","0"," ","f","a","i","l","e","d",
      "\n">>

L_Traces ==
    <<"T","r","a","c","e","s",":","\n"," "," ","[","5","]"," ","V","a","u",
      "l","t",":",":","w","i","t","h","d","r","a","w","(",")","\n","\n">>

\* lines of the output of an invariant run
L_InvFailReason ==
    <<"[","F","A","I","L",":"," ","r","e","v","e","r","t","]"," ","i","n","v",
      "a","r","i","a","n","t","_","s","o","l","v","e","n","c","y","(",")",
      "\n">>

L_InvFail ==
    <<"[","F","A","I","L","]"," ","i","n","v","a","r","i","a","n","t","_","s",
      "u","p","p","l","y","(",")","\n">>

L_InvPass ==
    <<"[","P","A","S","S","]"," ","i","n","v","a","r","i","a","n","t","_","s",
      "u","p","p","l","y","(",")","\n">>

L_InvSuite ==
    <<"R","a","n"," ","1"," ","t","e","s","t"," ","f","o","r"," ","I","n","v",
      "a","r","i","a","n","t","T","e","s","t","\n">>

L_Sequence ==
    <<"S","e","q","u","e","n","c","e",":","\n"," "," ","d","e","p","o","s",
      "i","t","(","1",")","\n","\n">>

L_Seed == <<"s","e","e","d",":"," ","7","\n">>

BuildLines ==
    {L_Error, L_ErrorWarning, L_Warning, L_Note, L_ArrowVault, L_ArrowTest}

TestLines == {L_Pass, L_FailReason, L_Summary11, L_Summary20, L_Traces}

InvariantLines ==
    {L_InvFailReason, L_InvFail, L_InvPass, L_InvSuite, L_Sequence, L_Seed}

LineVecs(pool) == UNION {[1..n -> pool] : n \in 0..MaxLines}

ParseInputs ==
    {[kind |-> "build", lines |-> q] : q \in LineVecs(BuildLines)}
    \cup {[kind |-> "test", lines |-> q] : q \in LineVecs(TestLines)}
    \cup {[kind |-> "invariant", lines |-> q] : q \in LineVecs(InvariantLines)}

\* the result of execCommand for a process that wrote the lines and exited
\* with code 0
Wrote(lines) ==
    [stdout |-> Lit(JoinWith(lines, <<>>)), stderr |-> <<>>, exitCode |-> 0,
     timedOut |-> FALSE]

ParseInit == Idle /\ rIn = <<>> /\ rOut = <<>> /\ pIn \in ParseInputs /\ parsed = Null

\* parseFoundryBuildOutput and the rest of buildProject on the output
ParseBuild ==
    /\ pIn.kind = "build"
    /\ parsed = Null
    /\ parsed' = Some([parse |-> parseFoundryBuildOutput(Output(Wrote(pIn.lines))),
                       ret   |-> BuildReturn(Command.forge, Wrote(pIn.lines))])
    /\ UNCHANGED <<execVars, rIn, rOut, pIn, tool, result, response, calls, project>>

\* parseFoundryTestOutput and the rest of runTests on the output
ParseTests ==
    /\ pIn.kind = "test"
    /\ parsed = Null
    /\ parsed' = Some([parse |-> parseFoundryTestOutput(Output(Wrote(pIn.lines))),
                       ret   |-> TestsReturn(Command.forge, Wrote(pIn.lines))])
    /\ UNCHANGED <<execVars, rIn, rOut, pIn, tool, result, response, calls, project>>

\* parseFoundryInvariantOutput and the rest of runInvariants on the output
ParseInvariants ==
    /\ pIn.kind = "invariant"
    /\ parsed = Null
    /\ parsed' = Some([parse |-> parseFoundryInvariantOutput(Output(Wrote(pIn.lines))),
                       ret   |-> InvariantsReturn(Wrote(pIn.lines))])
    /\ UNCHANGED <<execVars, rIn, rOut, pIn, tool, result, response, calls, project>>

ParseNext == ParseBuild \/ ParseTests \/ ParseInvariants

ParseSpec == ParseInit /\ [][ParseNext]_vars

\* ------------------------------------------------------------------------
\* Properties
\* ------------------------------------------------------------------------

\* the characters ; & | ` $ ( ) { } [ ] < > \
Metacharacters ==
    {";", "&", "|", CharClass.BACKTICK, "$", "(", ")", "{", "}", "[", "]", "<", ">", "\\"}

HasMetacharacter(arg) == \E j \in 1..Len(arg) : arg[j][1] \in Metacharacters

\* C1: a call of execCommand, made directly or by run-build, run-tests or
\* run-invariants, in which some argument holds one of the characters
\* ; & | ` $ ( ) { } [ ] < > \ is rejected by a validation and spawn is
\* not invoked for it.
C1_MetacharacterRejected ==
    (\E i \in 1..Len(args) : HasMetacharacter(args[i]))
        => /\ pc = "rejected"
           /\ thrown # NoError
           /\ spawnCount = 0
           /\ proc = "none"

\* run-tests on a Foundry project was rejected for the metacharacter in an
\* extra argument that follows a safe one
C1_Witness ==
    /\ pc = "rejected"
    /\ spawnCount = 0
    /\ Len(args) = 4
    /\ args[1] = ArgWord.test
    /\ args[3] = SafeArg
    /\ args[4] = ArgWith("\\")

\* C2: a call whose executable is not one of forge, npx, npm, yarn, pnpm is
\* rejected without a spawn; a call whose executable is one of them and
\* whose arguments all pass validateArgs goes on to spawn.
C2_AllowSet ==
    pc \in {"rejected", "running"} =>
        /\ cmd \notin {Command.forge, Command.npx, Command.npm, Command.yarn, Command.pnpm}
              => pc = "rejected" /\ spawnCount = 0 /\ thrown.kind = "CommandNotAllowed"
        /\ (cmd \in {Command.forge, Command.npx, Command.npm, Command.yarn, Command.pnpm}
            /\ \A i \in 1..Len(args) : ArgCheck(args[i]) = "ok")
              => pc = "running" /\ spawnCount = 1 /\ thrown = NoError

\* yarn was spawned with a non-empty argument vector
C2_Witness ==
    /\ pc = "running"
    /\ cmd = Command.yarn
    /\ Len(args) > 0
    /\ spawnCount = 1

\* C3: the caller of an authorized execCommand receives at most one result,
\* and no later event (data, close, error, timer) changes or replaces the
\* result it has received.
C3_OneResult ==
    [][/\ Len(delivered') <= 1
       /\ delivered # <<>> => delivered' = delivered]_vars

\* resolvePromise was called again after the result had been delivered
C3_Witness == Len(delivered) = 1 /\ resolveCalls >= 2

\* C4: when the timeout timer has fired before the result was delivered, the
\* delivered result has timedOut = true, whether close or error delivered it.
C4_TimedOutAfterTimeout ==
    (delivered # <<>> /\ timeoutId = "fired") => delivered[1].timedOut

\* C5: every authorized call delivers a result; after the timeout SIGTERM and
\* then, after the grace period, SIGKILL are sent.
C5_Returns ==
    /\ (pc = "running") ~> (delivered # <<>>)
    /\ (timeoutId = "fired") ~> (kills = <<"SIGTERM", "SIGKILL">>)

\* the close that followed SIGTERM and SIGKILL delivered the result
C5_Witness ==
    /\ delivered # <<>>
    /\ delivered[1].timedOut
    /\ delivered[1].exitCode = 124
    /\ kills = <<"SIGTERM", "SIGKILL">>
    /\ resolveCalls = 1

\* C6: no signal is sent before the timeout expires, the first signal is
\* SIGTERM, and SIGKILL is sent only when the grace timer runs and the
\* process has not exited by then.
C6_SignalOrder ==
    [][/\ kills' # <<>> => timeoutId' = "fired" /\ kills'[1] = "SIGTERM"
       /\ (kills' # kills /\ kills'[Len(kills')] = "SIGKILL")
              => graceTimer = "armed" /\ proc = "running"]_vars

\* the number of truncation markers in text
Markers(text) == Cardinality(Occurrences(text, MarkerChars))

\* C7: once an accumulator has reached the cap every further character of
\* its stream is discarded, and whenever a character of a stream has been
\* discarded its accumulator holds the truncation marker exactly once.
C7_MarkerOnce ==
    [][/\ StrLen(stdout) >= MAX_OUTPUT_SIZE => stdout' = stdout
       /\ StrLen(stderr) >= MAX_OUTPUT_SIZE => stderr' = stderr
       /\ discarded'.stdout > 0 => Markers(stdout') = 1
       /\ discarded'.stderr > 0 => Markers(stderr') = 1]_vars

\* C8: neither stream of a delivered result is longer than the capture
\* budget plus the truncation marker.
C8_ResultBounded ==
    delivered # <<>> =>
        /\ StrLen(delivered[1].stdout) <= MAX_OUTPUT_SIZE + Len(MarkerChars)
        /\ StrLen(delivered[1].stderr) <= MAX_OUTPUT_SIZE + Len(MarkerChars)

\* C9: no stream of a delivered result holds "0x" followed by 64 hexadecimal
\* digits; redactSecrets leaves both streams as they are.
C9_NoKeyDelivered ==
    delivered # <<>> =>
        /\ ~ContainsKey(delivered[1].stdout)
        /\ ~ContainsKey(delivered[1].stderr)
        /\ redactSecrets(delivered[1].stdout) = delivered[1].stdout
        /\ redactSecrets(delivered[1].stderr) = delivered[1].stderr

\* the process wrote a key to each stream and the close handler delivered
\* the placeholder in its place
C9_Witness ==
    /\ delivered # <<>>
    /\ proc = "closed"
    /\ ContainsKey(stdout)
    /\ ContainsKey(stderr)
    /\ Includes(delivered[1].stdout, <<"[","R","E","D","A","C","T","E","D","]">>)
    /\ Includes(delivered[1].stderr, <<"[","R","E","D","A","C","T","E","D","]">>)

\* C10: redactSecrets returns a string for every text, and applying it to
\* its own result changes nothing.
C10_Idempotent ==
    /\ \A i \in 1..Len(rOut) : rOut[i] = Norm(rOut[i])
    /\ Len(rOut) = 2 => rOut[2] = rOut[1]

\* a text with a key was redacted, and the result with the placeholder in
\* it was redacted again
C10_Witness ==
    /\ Len(rOut) = 2
    /\ ContainsKey(rIn)
    /\ rOut[1] # rIn
    /\ Includes(rOut[1], <<"[","R","E","D","A","C","T","E","D","]">>)

\* C11: once the validations have passed execCommand throws nothing; every
\* close, with an exit code or after a signal, delivers a result, and a
\* process that could not be started delivers empty stdout, the failure text
\* in stderr, exit code 1 and timedOut = false.
C11_FailuresAreResults ==
    pc = "running" =>
        /\ thrown = NoError
        /\ proc \in {"closed", "dead"} => Len(delivered) = 1
        /\ proc = "closed" => delivered[1].exitCode \in {0, 1, 124}
        /\ proc = "dead" =>
              delivered[1] =
                  [stdout   |-> <<>>,
                   stderr   |-> Concat(FailedPrefix, SpawnMessage(cmd)),
                   exitCode |-> 1,
                   timedOut |-> FALSE]

\* the error event of a process that could not be started delivered the result
C11_Witness ==
    /\ pc = "running"
    /\ proc = "dead"
    /\ delivered # <<>>
    /\ delivered[1].stdout = <<>>
    /\ delivered[1].exitCode = 1

\* C12: parseFoundryInvariantOutput returns ok = true only without a
\* violation, and runInvariants never gives "All invariants held" together
\* with a violation.
C12_OkMeansNoViolation ==
    (pIn.kind = "invariant" /\ parsed # Null) =>
        /\ Len(parsed[1].parse.violations) > 0 => ~parsed[1].parse.ok
        /\ ~(parsed[1].ret.summary = InvariantsText.AllHeld /\ Len(parsed[1].ret.violations) > 0)

\* the process of the operation could not be started and the operation has
\* returned
SpawnFailureReturned ==
    /\ result # Null
    /\ delivered # <<>>
    /\ kills = <<>>
    /\ delivered[1] = ErrorResult(SpawnMessage(cmd))

\* C13: when the process could not be started, run-build, run-tests and
\* run-invariants each return ok = false and a summary.
C13_SpawnFailureFails ==
    (pc = "running" /\ SpawnFailureReturned) =>
        /\ ~result[1].ok
        /\ result[1].summary # <<>>

\* the result of the same process output when the process exits with code 1
\* and no timeout fires
SameOutputNoTimeout == [delivered[1] EXCEPT !.exitCode = 1, !.timedOut = FALSE]

\* C14: when execCommand reports a timeout, each operation returns ok = false
\* and a summary that the same operation gives for no other outcome.
C14_TimeoutSummary ==
    (pc = "running" /\ result # Null /\ delivered[1].timedOut) =>
        /\ ~result[1].ok
        /\ result[1].summary # <<>>
        /\ ToolReturn(tool, cmd, SameOutputNoTimeout).summary # result[1].summary

\* no record in the data of the result res of the operation name
EmptyPayload(name, res) ==
    IF name = "audit_build"
    THEN res.compilerErrors = <<>> /\ res.warnings = <<>>
    ELSE IF name = "audit_test"
    THEN /\ res.totalTests = 0
         /\ res.passedTests = 0
         /\ res.failingTests = <<>>
         /\ res.failingTraces = <<>>
    ELSE /\ res.violations = <<>>
         /\ res.seedHints = <<>>
         /\ res.reproductionSteps = <<>>

\* C15: an operation that cannot determine the project type, or run-invariants
\* on a Hardhat-only project, spawns nothing and returns ok = false, a summary
\* and no issue, test, violation, seed or step record.
C15_NoCommandFailsEmpty ==
    pc = "noexec" =>
        /\ spawnCount = 0
        /\ ~result[1].ok
        /\ result[1].summary # <<>>
        /\ EmptyPayload(tool, result[1])

\* C16: a rejection by validateCommand or validateArgs in an operation starts
\* no process and makes the handler return an isError response that carries
\* the message of the rejection and no structured result.
C16_RejectionSurfaces ==
    (pc = "rejected" /\ tool # "none") =>
        /\ spawnCount = 0
        /\ proc = "none"
        /\ result = Null
        /\ response # Null
        /\ response[1].isError
        /\ response[1].structuredContent = Null
        /\ Contains(response[1].text, ErrorMessage(thrown))

\* audit_build was rejected for a metacharacter and the handler has answered
C16_Witness ==
    /\ pc = "rejected"
    /\ tool = "audit_build"
    /\ thrown.kind = "InvalidArgMetachar"
    /\ response # Null
    /\ response[1].isError

\* the first summary line among the lines, 0 if there is none
FirstSummary(lines) ==
    LET at == {i \in 1..Len(lines) : lines[i] \in {L_Summary11, L_Summary20}}
    IN  IF at = {} THEN 0 ELSE CHOOSE i \in at : \A j \in at : i <= j

\* C17: when the output has a summary line "N passed, M failed" (the first,
\* if there are several), parseFoundryTestOutput reports passed = N,
\* failed = M and total = N + M whatever records it matched; the lines
\* [PASS] testDeposit(), [FAIL: revert] testWithdraw() and 1 passed, 1 failed
\* give total 2, passed 1 and one failing record, testWithdraw.
C17_SummaryOverrides ==
    (pIn.kind = "test" /\ parsed # Null) =>
        /\ FirstSummary(pIn.lines) # 0 =>
              LET n == IF pIn.lines[FirstSummary(pIn.lines)] = L_Summary11 THEN 1 ELSE 2
                  m == IF pIn.lines[FirstSummary(pIn.lines)] = L_Summary11 THEN 1 ELSE 0
              IN  /\ parsed[1].parse.passed = n
                  /\ parsed[1].parse.failed = m
                  /\ parsed[1].parse.total = n + m
        /\ pIn.lines = <<L_Pass, L_FailReason, L_Summary11>> =>
              /\ parsed[1].parse.total = 2
              /\ parsed[1].parse.passed = 1
              /\ Len(SelectSeq(parsed[1].parse.tests, LAMBDA x : ~x.passed)) = 1
              /\ \E i \in 1..Len(parsed[1].parse.tests) :
                    /\ ~parsed[1].parse.tests[i].passed
                    /\ parsed[1].parse.tests[i].name = <<"t","e","s","t","W","i","t","h","d","r","a","w">>

\* the summary 2 passed; 0 failed was reported although the one record
\* matched is a failing one
C17_Witness ==
    /\ parsed # Null
    /\ pIn.lines = <<L_FailReason, L_Summary20>>
    /\ parsed[1].parse.total = 2
    /\ parsed[1].parse.failed = 0
    /\ Len(parsed[1].parse.tests) = 1

\* the files and the messages of the build lines
F_Vault == <<"s","r","c","/","V","a","u","l","t",".","s","o","l">>

F_Test == <<"t","e","s","t","/","V","a","u","l","t",".","t",".","s","o","l">>

M_Unused == <<"U","n","u","s","e","d"," ","v","a","r","i","a","b","l","e">>

M_WarningTreated ==
    <<"W","a","r","n","i","n","g"," ","t","r","e","a","t","e","d"," ","a","s",
      " ","e","r","r","o","r">>

M_UnusedLocal ==
    <<"U","n","u","s","e","d"," ","l","o","c","a","l"," ","v","a","r","i","a",
      "b","l","e">>

\* the positions of the lines with a marker line of heads that the line
\* after them locates
Blocks(lines, heads) ==
    SelectSeq([i \in 1..Len(lines) |-> i],
              LAMBDA i : /\ i < Len(lines)
                         /\ lines[i] \in heads
                         /\ lines[i + 1] \in {L_ArrowVault, L_ArrowTest})

FileOf(arrow) == IF arrow = L_ArrowVault THEN F_Vault ELSE F_Test

LineOf(arrow) == IF arrow = L_ArrowVault THEN 42 ELSE 7

MessageOf(head) ==
    IF head = L_Error THEN M_Unused
    ELSE IF head = L_ErrorWarning THEN M_WarningTreated
    ELSE M_UnusedLocal

\* C18: parseFoundryBuildOutput gives one error record, with the file and the
\* line of the triple and severity error, for each block of an Error: line
\* with its message followed by a --> line, and no warning record for it: the
\* warning records are those of the Warning: blocks alone.
C18_OneErrorPerBlock ==
    (pIn.kind = "build" /\ parsed # Null) =>
        LET eb == Blocks(pIn.lines, {L_Error, L_ErrorWarning})
            wb == Blocks(pIn.lines, {L_Warning})
        IN  /\ parsed[1].parse.errors =
                  [k \in 1..Len(eb) |->
                      [file     |-> FileOf(pIn.lines[eb[k] + 1]),
                       line     |-> LineOf(pIn.lines[eb[k] + 1]),
                       message  |-> MessageOf(pIn.lines[eb[k]]),
                       severity |-> "error"]]
            /\ parsed[1].parse.warnings =
                  [k \in 1..Len(wb) |->
                      [file     |-> FileOf(pIn.lines[wb[k] + 1]),
                       line     |-> LineOf(pIn.lines[wb[k] + 1]),
                       message  |-> MessageOf(pIn.lines[wb[k]])]]

\* C19: an error whose message goes on for a second line before the --> line
\* still gives a record for the location of that line.
C19_MultiLineMessage ==
    (pIn.kind = "build" /\ parsed # Null) =>
        \A i \in 1..(Len(pIn.lines) - 2) :
            (/\ pIn.lines[i] = L_Error
             /\ pIn.lines[i + 1] = L_Note
             /\ pIn.lines[i + 2] \in {L_ArrowVault, L_ArrowTest})
            => \E k \in 1..Len(parsed[1].parse.errors) :
                  /\ parsed[1].parse.errors[k].file = FileOf(pIn.lines[i + 2])
                  /\ parsed[1].parse.errors[k].line = LineOf(pIn.lines[i + 2])

\* C20: the error of a rejection by validateArgs, for a metacharacter and for
\* NUL, CR or LF alike, holds the first offending argument, and nothing is
\* spawned.
C20_NamesOffendingArgument ==
    (pc = "rejected" /\ thrown.kind \in {"InvalidArgMetachar", "InvalidArgControl"}) =>
        /\ spawnCount = 0
        /\ Contains(ErrorMessage(thrown), Chars(args[FirstBadArg(args)]))

\* one of the names of the path p is ".."
HasParentSegment(p) ==
    \E k \in 1..Len(Segments(p)) : Segments(p)[k] = <<".", ".">>

\* C21: every path validateProjectPath returns is absolute and holds no ".."
\* segment; when the validation fails the handler answers with the error of
\* the path, the operation returns no result and no process is spawned.
C21_ValidatedPath ==
    /\ (project.validated # Null) =>
           /\ isAbsolute(project.validated[1])
           /\ ~HasParentSegment(project.validated[1])
    /\ (pc = "badpath") =>
           /\ thrown.kind \in {"PathTraversal", "PathError"}
           /\ response = Some(ErrorResponse(tool, ErrorMessage(thrown)))
           /\ result = Null
           /\ spawnCount = 0

\* the locals of call i once it has handled the events es with no other call
\* running
RECURSIVE Alone(_, _)
Alone(i, es) ==
    IF es = <<>> THEN NoCalls.locals[i]
    ELSE Handle(Alone(i, SubSeq(es, 1, Len(es) - 1)), es[Len(es)])

SplitCharacter(s) ==
    \E k \in 1..Len(s) :
        /\ s[k][1] = CharClass.HighSurrogate
        /\ \/ s[k][2] > 1
           \/ k = Len(s)
           \/ s[k + 1][1] # CharClass.LowSurrogate

\* C23: however the output arrives in chunks, the text a stream keeps never
\* holds half a character, before the truncation marker or anywhere else.
C23_NoSplitCharacter ==
    /\ ~SplitCharacter(stdout)
    /\ ~SplitCharacter(stderr)
    /\ \A k \in 1..Len(delivered) :
           ~SplitCharacter(delivered[k].stdout) /\ ~SplitCharacter(delivered[k].stderr)

\* the suffix truncate ends a shortened text with
TruncatedMarker == <<"\n","[","T","r","u","n","c","a","t","e","d",".",".",".","]">>

\* C24: for the budgets 500, 1000 and 2000, truncate returns a text within
\* the budget as it is, and a longer one as a text within the budget that
\* starts as the text does and ends with the marker; truncating the result
\* again changes nothing.
C24_TruncateWithinBudget ==
    (pIn.kind = "truncate" /\ parsed # <<>>) =>
        LET text == pIn.text
            maxLength == pIn.maxLength
            once == parsed[1]
            kept == Len(once) - Len(TruncatedMarker)
        IN  /\ Len(text) <= maxLength => once = text
            /\ Len(text) > maxLength =>
                   /\ Len(once) <= maxLength
                   /\ kept >= 0
                   /\ SubSeq(once, 1, kept) = SubSeq(text, 1, kept)
                   /\ SubSeq(once, kept + 1, Len(once)) = TruncatedMarker
            /\ Len(parsed) = 2 => parsed[2] = once

\* a text one character over the budget 500 was cut to 495 characters, and
\* truncated again
C24_Witness ==
    /\ pIn.kind = "truncate"
    /\ pIn.maxLength = 500
    /\ Len(pIn.text) = 501
    /\ Len(parsed) = 2
    /\ Len(parsed[1]) = 495

\* the operation of the state went on to execCommand with the command c
Selected(c) == pc \notin {"idle", "badpath", "noexec", "unknown"} /\ cmd = c

\* C25: on a valid path and whichever of foundry.toml, hardhat.config.ts and
\* hardhat.config.js the directory holds, runTests and buildProject in mode
\* auto run forge exactly when detectProject reports foundry, npx exactly
\* when it reports hardhat and no command exactly when it reports unknown,
\* and runInvariants runs forge exactly when detectProject gives an
\* invariantCommand.
C25_SameToolchain ==
    (project.validated # Null) =>
        LET detected == detectProject(isFoundryProject(project.files),
                                      isHardhatProject(project.files))
        IN  /\ (tool = "audit_test"
                \/ (tool = "audit_build" /\ project.mode = "auto")) =>
                   /\ Selected(Command.forge)
                          <=> detected.projectType = DetectText.foundry
                   /\ Selected(Command.npx)
                          <=> detected.projectType = DetectText.hardhat
                   /\ pc = "noexec"
                          <=> detected.projectType = DetectText.unknown
            /\ (tool = "audit_invariants") =>
                   /\ Selected(Command.forge) <=> detected.invariantCommand # Null
                   /\ ~Selected(Command.npx)

\* runInvariants runs forge on a directory that holds both foundry.toml and
\* a hardhat.config
C25_Witness ==
    /\ tool = "audit_invariants"
    /\ Selected(Command.forge)
    /\ "foundry.toml" \in project.files
    /\ "hardhat.config.js" \in project.files
    /\ detectProject(TRUE, TRUE).invariantCommand # Null

\* the operation has returned after a process that was started and closed,
\* whose close event delivered the result of execCommand
RanSubprocess ==
    /\ tool \in {"audit_build", "audit_test", "audit_invariants"}
    /\ pc = "running"
    /\ proc = "closed"
    /\ resolveCalls = 1
    /\ result # Null

\* C26: when buildProject, runTests or runInvariants has run a process and
\* returns ok = true, the process has exited with code 0.
C26_OkMeansExitZero ==
    (RanSubprocess /\ result[1].ok) => delivered[1].exitCode = 0

\* C27: a result of runTests with ok = true has no failing test: when the
\* output holds a [FAIL...] record of a test, ok is false, with or without a
\* summary line in the output.
C27_OkMeansNoFailingTest ==
    (pIn.kind = "test" /\ parsed # Null /\ parsed[1].ret.ok) =>
        parsed[1].ret.failingTests = <<>>

\* C28: when the process has closed before the timeout timer ran, the timer
\* is cleared, no signal is ever passed to proc.kill and the result has
\* timedOut = false; and once the result of a call has been delivered no
\* signal is sent to its process.
C28_NoSignalAfterResult ==
    [][/\ (proc' = "closed" /\ timeoutId' = "cleared") =>
              /\ kills' = <<>>
              /\ ~delivered'[1].timedOut
       /\ delivered # <<>> => kills' = kills]_vars

\* C29: a result of runInvariants with ok = false lists at least one
\* violation.
C29_FailedMeansViolation ==
    (pIn.kind = "invariant" /\ parsed # Null /\ ~parsed[1].ret.ok) =>
        Len(parsed[1].ret.violations) >= 1

\* the handler has returned: every path but a call of execCommand that is
\* still awaited
HandlerDone == pc \in {"rejected", "badpath", "noexec", "unknown"} \/ result # Null

\* C30: every path through the handler ends with a response.  For a name
\* that is no operation the response is an error response, no operation has
\* been called and no process spawned; when an operation throws, the
\* response is an error response with the message; when it returns, the
\* response holds the text summary and the result as structured content.
C30_HandlerTotal ==
    /\ HandlerDone => response # Null
    /\ response # Null =>
           /\ HandlerDone
           /\ response[1].isError \in BOOLEAN
           /\ response[1].text # <<>>
    /\ (tool = "unknown") =>
           /\ pc = "unknown"
           /\ response[1].isError
           /\ response[1].structuredContent = Null
           /\ \E name \in UnknownNames :
                  response[1].text = IndexText.UnknownTool \o name
           /\ result = Null
           /\ project = NoProject
           /\ spawnCount = 0 /\ proc = "none"
    /\ (pc \in {"rejected", "badpath"}) =>
           /\ result = Null
           /\ response[1].isError
           /\ response[1].structuredContent = Null
           /\ response[1].text = IndexText.ErrorExecuting \o ToolName(tool)
                                     \o <<":", " ">> \o ErrorMessage(thrown)
    /\ result # Null =>
           /\ ~response[1].isError
           /\ response[1].text = textSummary(tool, result[1])
           /\ response[1].structuredContent = result

\* the handler has answered a call for a name that is no operation
C30_Witness ==
    /\ tool = "unknown"
    /\ response # Null
    /\ response[1].isError
    /\ spawnCount = 0

====
